---- MODULE Spec2Model ----
(***************************************************************************)
(* Keyframe animation evaluation of bevy_animation:                        *)
(*   crates/bevy_animation/src/animatable.rs  (Animatable, the dispatch    *)
(*       entries ReflectAnimatable, interpolate_keyframes, the cubic       *)
(*       reconstructor)                                                    *)
(*   crates/bevy_animation/src/keyframes.rs   (the Keyframes tracks)       *)
(*                                                                         *)
(* f32 values are modelled as binary floating-point numbers m * 2^e with   *)
(* a mantissa of MantissaBits bits, every arithmetic operation rounding    *)
(* to nearest, ties to even, as IEEE 754 does.  Exponents are unbounded    *)
(* and only finite values are modelled (no infinity, no NaN).              *)
(***************************************************************************)
EXTENDS Integers, Sequences, FiniteSets, TLC

\* ------------------------------------------------------------------ bounds
MantissaBits == 6     \* bits of mantissa kept by a rounding
MaxInputs == 2        \* longest input sequence handed to blend
MaxAdditive == 3      \* longest sequence of additive inputs handed to blend
MaxFlatLen == 8       \* longest flat array a morph-weight lookup reads
MaxLookupTargets == 3 \* most morph targets of a morph-weight lookup
MaxKeyframes == 5     \* longest keyframe array of a track
MaxStep == 3          \* largest step_start passed to a track
MaxTargets == 2       \* most morph targets of a mesh / of a track
MaxApplications == 3  \* most track applications made one after another
MaxTriplets == 3      \* most keyframes of a CubicSpline track

\* ------------------------------------------------------------ f32 numbers
\* A float is <<m, e>>, of value m * 2^e, normalised: m odd, or <<0, 0>>.
RECURSIVE Pow2(_)
Pow2(k) == IF k <= 0 THEN 1 ELSE 2 * Pow2(k - 1)

RECURSIVE BitLen(_)
BitLen(n) == IF n = 0 THEN 0 ELSE 1 + BitLen(n \div 2)

Abs(n) == IF n < 0 THEN -n ELSE n

RECURSIVE Norm(_, _)
Norm(m, e) ==
    IF m = 0 THEN <<0, 0>>
    ELSE IF m % 2 = 0 THEN Norm(m \div 2, e + 1)
    ELSE <<m, e>>

\* q, the bits kept, moved up by one when the k bits r dropped are more than
\* half a unit h, or exactly half with q odd (ties to even).
RoundOff(m, e, k, q, r, h) ==
    IF r > h \/ (r = h /\ q % 2 = 1)
    THEN Norm(IF m < 0 THEN -(q + 1) ELSE q + 1, e + k)
    ELSE Norm(IF m < 0 THEN -q ELSE q, e + k)

\* m * 2^e with the k lowest bits of m rounded off.
RndBits(m, e, k) ==
    IF k <= 0 THEN Norm(m, e)
    ELSE RoundOff(m, e, k, Abs(m) \div Pow2(k), Abs(m) % Pow2(k), Pow2(k - 1))

\* Round m * 2^e to MantissaBits bits: to nearest, ties to even.
Rnd(m, e) == RndBits(m, e, BitLen(Abs(m)) - MantissaBits)

Min(a, b) == IF a < b THEN a ELSE b

\* The float operations take their operands by value: each is computed
\* before the operation starts.
MulValues(x, y) == Rnd(x[1] * y[1], x[2] + y[2])

FMul(x, y) == CHOOSE r \in {MulValues(v[1], v[2]) : v \in {<<x, y>>}} : TRUE

AddValues(x, y) ==
    LET e == Min(x[2], y[2])
    IN  Rnd(x[1] * Pow2(x[2] - e) + y[1] * Pow2(y[2] - e), e)

FAdd(x, y) == CHOOSE r \in {AddValues(v[1], v[2]) : v \in {<<x, y>>}} : TRUE

FNeg(x) == <<-x[1], x[2]>>

FSub(x, y) == FAdd(x, FNeg(y))

LessValues(x, y) ==
    LET e == Min(x[2], y[2])
    IN  x[1] * Pow2(x[2] - e) < y[1] * Pow2(y[2] - e)

FLess(x, y) == CHOOSE r \in {LessValues(v[1], v[2]) : v \in {<<x, y>>}} : TRUE

FromInt(n) == Rnd(n, 0)

Zero == <<0, 0>>
One == <<1, 0>>
Half == <<1, -1>>


\* The two factors exchanged: a * t + b * (1 - t).
F32InterpolateSwapped(a, b, t) == FAdd(FMul(a, t), FMul(b, FSub(One, t)))

\* ------------------------------------------------------------- Animatable
\* impl_float_animatable / impl_color_animatable / Vec3: a * (1 - t) + b * t
F32Interpolate(a, b, t) == FAdd(FMul(a, FSub(One, t)), FMul(b, t))

\* Lane-wise operations of the vector and colour types (Vec3, Vec3A, the
\* four-channel colours): a vector is a sequence of floats.
VecInterpolate(a, b, t) == [i \in DOMAIN a |-> F32Interpolate(a[i], b[i], t)]

VecScale(w, v) == [i \in DOMAIN v |-> FMul(w, v[i])]

VecAdd(a, b) == [i \in DOMAIN a |-> FAdd(a[i], b[i])]

\* Vec3A::from(Vec3): three lanes and the padding lane of the aligned vector.
ToVec3A(v) == <<v[1], v[2], v[3], v[3]>>

\* Vec3::from(Vec3A): the padding lane is dropped.
FromVec3A(a) == <<a[1], a[2], a[3]>>

Vec3AZero == <<Zero, Zero, Zero, Zero>>

\* Default::default() of the colour types.
ColorDefault == <<Zero, Zero, Zero, Zero>>

\* util::step_unclamped: a until t reaches 1, then b.
StepUnclamped(a, b, t) == IF FLess(t, One) THEN a ELSE b

\* A rotation about one fixed axis is the unit quaternion
\* (cos(pi*h), sin(pi*h)*axis), kept as the float h in (-1, 1]; h and h +- 1
\* are the two quaternions q and -q of one orientation.
Wrap(h) ==
    IF FLess(One, h) THEN FSub(h, FromInt(2))
    ELSE IF ~FLess(FNeg(One), h) THEN FAdd(h, FromInt(2))
    ELSE h

QuatIdentity == Zero

SameOrientation(p, q) ==
    \/ p = q
    \/ Wrap(FAdd(p, One)) = q

\* The arc walked from the start, d being the half-angle from start to end:
\* the end is negated (d moved by a half turn) when the dot product of the two
\* quaternions is negative, that is when d is beyond a quarter turn.
ShortArc(d) ==
    IF FLess(Half, d) THEN FSub(d, One)
    ELSE IF FLess(d, FNeg(Half)) THEN FAdd(d, One)
    ELSE d

\* Quat::slerp: the arc from a to b (or to -b) walked by the fraction s.
Slerp(a, b, s) == Wrap(FAdd(a, FMul(s, ShortArc(Wrap(FSub(b, a))))))

Types == {"f32", "Vec3", "Color", "bool", "Quat"}

\* <T as Animatable>::interpolate on values
InterpolateValues(ty, a, b, t) ==
    CASE ty = "f32" -> F32Interpolate(a, b, t)
      [] ty = "Vec3" -> VecInterpolate(a, b, t)
      [] ty = "Vec3A" -> VecInterpolate(a, b, t)
      [] ty = "Color" -> VecInterpolate(a, b, t)
      [] ty = "bool" -> StepUnclamped(a, b, t)
      [] ty = "Quat" -> Slerp(a, b, t)

\* <T as Animatable>::interpolate: a call by value, the arguments computed
\* before the body runs.
Interpolate(ty, a, b, t) ==
    CHOOSE r \in {InterpolateValues(ty, v[1], v[2], v[3]) : v \in {<<a, b, t>>}} : TRUE


\* The accumulator and the input exchanged in the non-additive branch.
FloatBlendStepSwapped(value, input) ==
    IF input.additive
    THEN FAdd(value, FMul(input.weight, input.value))
    ELSE F32Interpolate(input.value, value, input.weight)

\* A non-additive input overwrites the accumulator, whatever its weight.
FloatBlendStepOverwrite(value, input) ==
    IF input.additive
    THEN FAdd(value, FMul(input.weight, input.value))
    ELSE input.value

\* An additive input added without its weight.
FloatBlendStepUnweighted(value, input) ==
    IF input.additive
    THEN FAdd(value, input.value)
    ELSE Interpolate("f32", value, input.value, input.weight)

\* A BlendInput is [weight, value, additive].
\* impl_float_animatable::blend: the loop body, then the loop.
FloatBlendStep(value, input) ==
    IF input.additive
    THEN FAdd(value, FMul(input.weight, input.value))
    ELSE Interpolate("f32", value, input.value, input.weight)

RECURSIVE FloatBlendLoop(_, _, _)
FloatBlendLoop(inputs, i, value) ==
    IF i > Len(inputs) THEN value
    ELSE FloatBlendLoop(inputs, i + 1, FloatBlendStep(value, inputs[i]))

FloatBlend(inputs) == FloatBlendLoop(inputs, 1, Zero)

\* impl_color_animatable::blend
ColorBlendStep(value, input) ==
    IF input.additive
    THEN VecAdd(value, VecScale(input.weight, input.value))
    ELSE Interpolate("Color", value, input.value, input.weight)

RECURSIVE ColorBlendLoop(_, _, _)
ColorBlendLoop(inputs, i, value) ==
    IF i > Len(inputs) THEN value
    ELSE ColorBlendLoop(inputs, i + 1, ColorBlendStep(value, inputs[i]))

ColorBlend(inputs) == ColorBlendLoop(inputs, 1, ColorDefault)

\* <Vec3 as Animatable>::blend: accumulated as a Vec3A.
Vec3BlendStep(value, input) ==
    IF input.additive
    THEN VecAdd(value, VecScale(input.weight, ToVec3A(input.value)))
    ELSE Interpolate("Vec3A", value, ToVec3A(input.value), input.weight)

RECURSIVE Vec3BlendLoop(_, _, _)
Vec3BlendLoop(inputs, i, value) ==
    IF i > Len(inputs) THEN value
    ELSE Vec3BlendLoop(inputs, i + 1, Vec3BlendStep(value, inputs[i]))

Vec3Blend(inputs) == FromVec3A(Vec3BlendLoop(inputs, 1, Vec3AZero))

\* <bool as Animatable>::blend: Iterator::max_by on the weights keeps the
\* last of several greatest inputs; unwrap_or(false) when there is none.
RECURSIVE BoolMaxBy(_, _, _)
BoolMaxBy(inputs, i, best) ==
    IF i > Len(inputs) THEN best
    ELSE BoolMaxBy(inputs, i + 1,
                   IF FLess(inputs[i].weight, inputs[best].weight) THEN best ELSE i)

\* The value of the last input, whatever the weights.
BoolBlendLastInput(inputs) ==
    IF Len(inputs) = 0 THEN FALSE
    ELSE inputs[Len(inputs)].value

BoolBlend(inputs) ==
    IF Len(inputs) = 0 THEN FALSE
    ELSE inputs[BoolMaxBy(inputs, 2, 1)].value

\* <Quat as Animatable>::blend: every input is slerped toward, additive or not.
RECURSIVE QuatBlendLoop(_, _, _)
QuatBlendLoop(inputs, i, value) ==
    IF i > Len(inputs) THEN value
    ELSE QuatBlendLoop(inputs, i + 1,
                       Interpolate("Quat", value, inputs[i].value, inputs[i].weight))

\* Only the inputs that are not additive are slerped toward.
QuatBlendAdditiveSkipped(inputs) ==
    QuatBlendLoop(SelectSeq(inputs, LAMBDA input : ~input.additive), 1, QuatIdentity)

QuatBlend(inputs) == QuatBlendLoop(inputs, 1, QuatIdentity)

\* A Transform is [translation, rotation, scale].
\* <Transform as Animatable>::interpolate
TransformInterpolate(a, b, t) ==
    [translation |-> Interpolate("Vec3", a.translation, b.translation, t),
     rotation |-> Interpolate("Quat", a.rotation, b.rotation, t),
     scale |-> Interpolate("Vec3", a.scale, b.scale, t)]

\* The rotation of an additive input left out of the accumulator.
TransformBlendStepRotationKept(value, input) ==
    IF input.additive
    THEN [translation |-> VecAdd(value.translation,
                                 VecScale(input.weight, ToVec3A(input.value.translation))),
          scale |-> VecAdd(value.scale, VecScale(input.weight, ToVec3A(input.value.scale))),
          rotation |-> value.rotation]
    ELSE [translation |-> Interpolate("Vec3A", value.translation,
                                      ToVec3A(input.value.translation), input.weight),
          scale |-> Interpolate("Vec3A", value.scale, ToVec3A(input.value.scale),
                                input.weight),
          rotation |-> Interpolate("Quat", value.rotation, input.value.rotation,
                                   input.weight)]

\* <Transform as Animatable>::blend, the loop body: translation and scale are
\* accumulated as Vec3A, the rotation is slerped in both branches.
TransformBlendStep(value, input) ==
    IF input.additive
    THEN [translation |-> VecAdd(value.translation,
                                 VecScale(input.weight, ToVec3A(input.value.translation))),
          scale |-> VecAdd(value.scale, VecScale(input.weight, ToVec3A(input.value.scale))),
          rotation |-> Slerp(value.rotation, input.value.rotation, input.weight)]
    ELSE [translation |-> Interpolate("Vec3A", value.translation,
                                      ToVec3A(input.value.translation), input.weight),
          scale |-> Interpolate("Vec3A", value.scale, ToVec3A(input.value.scale),
                                input.weight),
          rotation |-> Interpolate("Quat", value.rotation, input.value.rotation,
                                   input.weight)]

RECURSIVE TransformBlendLoop(_, _, _)
TransformBlendLoop(inputs, i, value) ==
    IF i > Len(inputs) THEN value
    ELSE TransformBlendLoop(inputs, i + 1, TransformBlendStep(value, inputs[i]))

\* The accumulators narrowed to Vec3 when the loop is over.
TransformFromAccumulators(value) ==
    [translation |-> FromVec3A(value.translation),
     rotation |-> value.rotation,
     scale |-> FromVec3A(value.scale)]

\* <Transform as Animatable>::blend
TransformBlend(inputs) ==
    TransformFromAccumulators(
        TransformBlendLoop(inputs, 1,
            [translation |-> Vec3AZero, rotation |-> QuatIdentity, scale |-> Vec3AZero]))

\* <T as Animatable>::blend
Blend(ty, inputs) ==
    CASE ty = "f32" -> FloatBlend(inputs)
      [] ty = "Vec3" -> Vec3Blend(inputs)
      [] ty = "Color" -> ColorBlend(inputs)
      [] ty = "bool" -> BoolBlend(inputs)
      [] ty = "Quat" -> QuatBlend(inputs)


\* --------------------------------------------------------------- division
\* x / y of two floats, y # 0, correctly rounded: the quotient is taken to
\* more bits than the mantissa holds, with a sticky bit for the remainder.
FDiv(x, y) ==
    LET s == MantissaBits + 2 + BitLen(Abs(y[1]))
        n == Abs(x[1]) * Pow2(s)
        q == n \div Abs(y[1])
        sticky == IF n % Abs(y[1]) = 0 THEN 0 ELSE 1
        neg == (x[1] < 0) # (y[1] < 0)
        m == 2 * q + sticky
    IN  Rnd(IF neg THEN -m ELSE m, x[2] - y[2] - s - 1)

\* ------------------------------------------------------ cubic reconstructor
\* interpolate_with_cubic_bezier, the last two levels of the subdivision:
\* p0p1p2, p1p2p3 and the value.
DeCasteljauTop(ty, p0p1, p1p2, p2p3, t) ==
    Interpolate(ty, Interpolate(ty, p0p1, p1p2, t), Interpolate(ty, p1p2, p2p3, t), t)

\* The subdivision run over the control points from the end.
DeCasteljauReversed(ty, p0, p1, p2, p3, t) ==
    DeCasteljauTop(ty, Interpolate(ty, p3, p2, t), Interpolate(ty, p2, p1, t),
                   Interpolate(ty, p1, p0, t), t)

\* interpolate_with_cubic_bezier, the subdivision: p0p1, p1p2, p2p3 first.
DeCasteljau(ty, p0, p1, p2, p3, t) ==
    DeCasteljauTop(ty, Interpolate(ty, p0, p1, t), Interpolate(ty, p1, p2, t),
                   Interpolate(ty, p2, p3, t), t)

\* The in-tangent added to the end value instead of subtracted from it.
InterpolateWithCubicBezierTangentAdded(ty, p0, d0, d3, p3, t, duration) ==
    DeCasteljau(ty, p0,
        Blend(ty, << [weight |-> FDiv(duration, FromInt(3)), value |-> d0, additive |-> TRUE],
                     [weight |-> One, value |-> p0, additive |-> TRUE] >>),
        Blend(ty, << [weight |-> FDiv(duration, FromInt(3)), value |-> d3, additive |-> TRUE],
                     [weight |-> One, value |-> p3, additive |-> TRUE] >>),
        p3, t)

\* interpolate_with_cubic_bezier: the control points p1 and p2 are additive
\* blends of the derivatives and the endpoints.
InterpolateWithCubicBezier(ty, p0, d0, d3, p3, t, duration) ==
    DeCasteljau(ty, p0,
        Blend(ty, << [weight |-> FDiv(duration, FromInt(3)), value |-> d0, additive |-> TRUE],
                     [weight |-> One, value |-> p0, additive |-> TRUE] >>),
        Blend(ty, << [weight |-> FDiv(duration, FromInt(-3)), value |-> d3, additive |-> TRUE],
                     [weight |-> One, value |-> p3, additive |-> TRUE] >>),
        p3, t)

\* ----------------------------------------------------------- keyframe lists
\* Option<T>
None == [some |-> FALSE]
Some(v) == [some |-> TRUE, val |-> v]

\* <[T]>::get with a 0-based index
SliceGet(items, index) ==
    IF index < Len(items) THEN Some(items[index + 1]) ELSE None

\* impl KeyframeList for Vec<T> / GetKeyframe for AnimatablePropertyKeyframes
VecKeyframes(items) == [kind |-> "Vec", items |-> items]

\* The lookup striding by one whatever the number of targets.
GetMorphWeightKeyframeUnitStride(track, morph_target_index) ==
    [kind |-> "Morph", items |-> track.weights,
     morph_target_index |-> morph_target_index,
     morph_target_count |-> 1]

\* keyframes.rs GetMorphWeightKeyframe: the stride is the track's morph_target_count
GetMorphWeightKeyframe(track, morph_target_index) ==
    [kind |-> "Morph", items |-> track.weights,
     morph_target_index |-> morph_target_index,
     morph_target_count |-> track.morph_target_count]

\* Every weight reading the keyframes of target 0.
MorphWeightsKeyframesListFirstTarget(keyframes, morph_target_index, morph_target_count) ==
    [kind |-> "Morph", items |-> keyframes,
     morph_target_index |-> 0,
     morph_target_count |-> morph_target_count]

\* animatable.rs MorphWeightsKeyframes: the stride is handed in by the caller
MorphWeightsKeyframesList(keyframes, morph_target_index, morph_target_count) ==
    [kind |-> "Morph", items |-> keyframes,
     morph_target_index |-> morph_target_index,
     morph_target_count |-> morph_target_count]

\* The array read target-major: all the keyframes of a target side by side.
MorphFlatIndexTargetMajor(keyframe_index, morph_target_count, morph_target_index) ==
    morph_target_index * morph_target_count + keyframe_index

\* The flat index a morph lookup reads.
MorphFlatIndex(keyframe_index, morph_target_count, morph_target_index) ==
    keyframe_index * morph_target_count + morph_target_index

\* KeyframeList::get / GetKeyframe::get_keyframe
KeyframeGet(list, index) ==
    IF list.kind = "Vec" THEN SliceGet(list.items, index)
    ELSE SliceGet(list.items,
                  MorphFlatIndex(index, list.morph_target_count, list.morph_target_index))

\* Result<(), AnimationEvaluationError> together with the destination as the
\* call leaves it.
Ok(dest) == [result |-> "Ok", dest |-> dest]
Err(e, dest) == [result |-> e, dest |-> dest]


\* Step switching to the end keyframe once time reaches 1, every other mode
\* as in the code.
TweenedValueStepAtEnd(ty, list, interpolation, step_start, time, duration) ==
    CASE interpolation = "Step" ->
            LET start_keyframe == KeyframeGet(list, step_start)
                end_keyframe == KeyframeGet(list, step_start + 1)
            IN  IF start_keyframe.some /\ end_keyframe.some
                THEN Some(StepUnclamped(start_keyframe.val, end_keyframe.val, time))
                ELSE None
      [] interpolation = "Linear" ->
            LET start_keyframe == KeyframeGet(list, step_start)
                end_keyframe == KeyframeGet(list, step_start + 1)
            IN  IF start_keyframe.some /\ end_keyframe.some
                THEN Some(Interpolate(ty, start_keyframe.val, end_keyframe.val, time))
                ELSE None
      [] interpolation = "CubicSpline" ->
            LET start_keyframe == KeyframeGet(list, step_start * 3 + 1)
                start_tangent_keyframe == KeyframeGet(list, step_start * 3 + 2)
                end_tangent_keyframe == KeyframeGet(list, step_start * 3 + 3)
                end_keyframe == KeyframeGet(list, step_start * 3 + 4)
            IN  IF /\ start_keyframe.some
                   /\ start_tangent_keyframe.some
                   /\ end_tangent_keyframe.some
                   /\ end_keyframe.some
                THEN Some(InterpolateWithCubicBezier(ty, start_keyframe.val,
                              start_tangent_keyframe.val, end_tangent_keyframe.val,
                              end_keyframe.val, time, duration))
                ELSE None

\* CubicSpline reading each triplet from its first entry: the four values
\* at step_start * 3 and the three entries after it.
TweenedValueTripletStart(ty, list, interpolation, step_start, time, duration) ==
    CASE interpolation = "Step" ->
            LET start_keyframe == KeyframeGet(list, step_start)
            IN  IF start_keyframe.some THEN Some(start_keyframe.val) ELSE None
      [] interpolation = "Linear" ->
            LET start_keyframe == KeyframeGet(list, step_start)
                end_keyframe == KeyframeGet(list, step_start + 1)
            IN  IF start_keyframe.some /\ end_keyframe.some
                THEN Some(Interpolate(ty, start_keyframe.val, end_keyframe.val, time))
                ELSE None
      [] interpolation = "CubicSpline" ->
            LET start_keyframe == KeyframeGet(list, step_start * 3)
                start_tangent_keyframe == KeyframeGet(list, step_start * 3 + 1)
                end_tangent_keyframe == KeyframeGet(list, step_start * 3 + 2)
                end_keyframe == KeyframeGet(list, step_start * 3 + 3)
            IN  IF /\ start_keyframe.some
                   /\ start_tangent_keyframe.some
                   /\ end_tangent_keyframe.some
                   /\ end_keyframe.some
                THEN Some(InterpolateWithCubicBezier(ty, start_keyframe.val,
                              start_tangent_keyframe.val, end_tangent_keyframe.val,
                              end_keyframe.val, time, duration))
                ELSE None

\* The value interpolate_keyframes computes before blending it into dest:
\* None when a keyframe it needs is absent.
TweenedValue(ty, list, interpolation, step_start, time, duration) ==
    CASE interpolation = "Step" ->
            LET start_keyframe == KeyframeGet(list, step_start)
            IN  IF start_keyframe.some THEN Some(start_keyframe.val) ELSE None
      [] interpolation = "Linear" ->
            LET start_keyframe == KeyframeGet(list, step_start)
                end_keyframe == KeyframeGet(list, step_start + 1)
            IN  IF start_keyframe.some /\ end_keyframe.some
                THEN Some(Interpolate(ty, start_keyframe.val, end_keyframe.val, time))
                ELSE None
      [] interpolation = "CubicSpline" ->
            LET start_keyframe == KeyframeGet(list, step_start * 3 + 1)
                start_tangent_keyframe == KeyframeGet(list, step_start * 3 + 2)
                end_tangent_keyframe == KeyframeGet(list, step_start * 3 + 3)
                end_keyframe == KeyframeGet(list, step_start * 3 + 4)
            IN  IF /\ start_keyframe.some
                   /\ start_tangent_keyframe.some
                   /\ end_tangent_keyframe.some
                   /\ end_keyframe.some
                THEN Some(InterpolateWithCubicBezier(ty, start_keyframe.val,
                              start_tangent_keyframe.val, end_tangent_keyframe.val,
                              end_keyframe.val, time, duration))
                ELSE None

\* The end of interpolate_keyframes: a missing keyframe has returned
\* KeyframeNotPresent, a value is blended into dest by weight.
BlendIntoDest(ty, dest, value, weight) ==
    IF ~value.some THEN Err("KeyframeNotPresent", dest)
    ELSE Ok(Interpolate(ty, dest, value.val, weight))

\* Variants of the end of interpolate_keyframes: the value stored as it is,
\* and a missing keyframe passed over.
StoreIntoDest(dest, value) ==
    IF ~value.some THEN Err("KeyframeNotPresent", dest) ELSE Ok(value.val)

BlendIntoDestIfSome(ty, dest, value, weight) ==
    IF ~value.some THEN Ok(dest) ELSE Ok(Interpolate(ty, dest, value.val, weight))

\* The computed value stored without blending it into dest by weight.
InterpolateKeyframesOverwrite(ty, dest, list, interpolation, step_start, time, weight, duration) ==
    StoreIntoDest(dest, TweenedValue(ty, list, interpolation, step_start, time, duration))

\* A missing keyframe skipped in silence instead of reported.
InterpolateKeyframesSkipMissing(ty, dest, list, interpolation, step_start, time, weight, duration) ==
    BlendIntoDestIfSome(ty, dest,
        TweenedValue(ty, list, interpolation, step_start, time, duration), weight)

\* animatable.rs interpolate_keyframes
InterpolateKeyframes(ty, dest, list, interpolation, step_start, time, weight, duration) ==
    BlendIntoDest(ty, dest,
        TweenedValue(ty, list, interpolation, step_start, time, duration), weight)


\* ------------------------------------------------------------------ tracks
\* An object (entity) is [component, prop_some, property, morph, weights]:
\*   component  whether it has the component P::Component of the property track
\*   prop_some  whether P::get_mut finds the property in that component
\*   property   the property's value (an f32)
\*   morph      whether it has a MorphWeights component
\*   weights    MorphWeights::weights
\* A call's outcome is [result, dest], dest being the object as the call left
\* it; result "Panic" is a panic of the thread making the call.

\* The outcome of the computation reported and the property left as it was.
PropertyNotWritten(obj, r) == [result |-> r.result, dest |-> obj]

\* The outcome r of a computation on the property (on the weights) of obj,
\* which leaves its value in place of the old one.
PropertyWritten(obj, r) == [result |-> r.result, dest |-> [obj EXCEPT !.property = r.dest]]

WeightsWritten(obj, r) == [result |-> r.result, dest |-> [obj EXCEPT !.weights = r.dest]]

\* <AnimatablePropertyKeyframes<P> as Keyframes>::keyframe_count
PropertyKeyframeCount(keyframes) == [result |-> "Ok", count |-> Len(keyframes)]

\* <AnimatablePropertyKeyframes<P> as Keyframes>::apply_single_keyframe:
\* the value interpolate returns is dropped.
PropertyApplySingleKeyframe(obj, keyframes, weight) ==
    IF ~obj.component THEN Err("ComponentNotPresent", obj)
    ELSE IF ~obj.prop_some THEN Err("PropertyNotPresent", obj)
    ELSE IF Len(keyframes) = 0 THEN Err("KeyframeNotPresent", obj)
    ELSE LET dropped == Interpolate("f32", obj.property, keyframes[1], weight)
         IN  Ok(obj)

\* The outcome r of the keyframe lookup consulted before the component.
LateCheck(obj, r) ==
    IF r.result # "Ok" THEN Err(r.result, obj)
    ELSE IF ~obj.component THEN Err("ComponentNotPresent", obj)
    ELSE IF ~obj.prop_some THEN Err("PropertyNotPresent", obj)
    ELSE Ok([obj EXCEPT !.property = r.dest])

\* The keyframes looked up before the component.
PropertyApplyTweenedKeyframesLateCheck(obj, keyframes, interpolation, step_start, time, weight, duration) ==
    LateCheck(obj, InterpolateKeyframes("f32", obj.property, VecKeyframes(keyframes),
                                        interpolation, step_start, time, weight, duration))

\* <AnimatablePropertyKeyframes<P> as Keyframes>::apply_tweened_keyframes
PropertyApplyTweenedKeyframes(obj, keyframes, interpolation, step_start, time, weight, duration) ==
    IF ~obj.component THEN Err("ComponentNotPresent", obj)
    ELSE IF ~obj.prop_some THEN Err("PropertyNotPresent", obj)
    ELSE PropertyWritten(obj,
             InterpolateKeyframes("f32", obj.property, VecKeyframes(keyframes),
                                  interpolation, step_start, time, weight, duration))

\* <MorphWeightsKeyframes as Keyframes>::keyframe_count: an integer division,
\* which panics on a zero divisor.
MorphKeyframeCount(track) ==
    IF track.morph_target_count = 0 THEN [result |-> "Panic", count |-> 0]
    ELSE [result |-> "Ok", count |-> Len(track.weights) \div track.morph_target_count]

\* The loop of <MorphWeightsKeyframes as Keyframes>::apply_single_keyframe:
\* self.weights[morph_target_index] panics past the end of the array.
RECURSIVE MorphSingleLoop(_, _, _, _)
MorphSingleLoop(track, weights, i, weight) ==
    IF i > Len(weights) THEN Ok(weights)
    ELSE IF i > Len(track.weights) THEN Err("Panic", weights)
    ELSE MorphSingleLoop(track,
             [weights EXCEPT ![i] = Interpolate("f32", weights[i], track.weights[i], weight)],
             i + 1, weight)

\* <MorphWeightsKeyframes as Keyframes>::apply_single_keyframe
MorphApplySingleKeyframe(obj, track, weight) ==
    IF ~obj.morph THEN Err("ComponentNotPresent", obj)
    ELSE WeightsWritten(obj, MorphSingleLoop(track, obj.weights, 1, weight))

\* The loop of <MorphWeightsKeyframes as Keyframes>::apply_tweened_keyframes:
\* `?` leaves the loop at the first error, the weights before it written.
RECURSIVE MorphTweenedLoop(_, _, _, _, _, _, _, _)
RECURSIVE MorphTweenedNext(_, _, _, _, _, _, _, _, _)
MorphTweenedLoop(track, weights, i, interpolation, step_start, time, weight, duration) ==
    IF i > Len(weights) THEN Ok(weights)
    ELSE MorphTweenedNext(track, weights, i, interpolation, step_start, time, weight, duration,
             InterpolateKeyframes("f32", weights[i], GetMorphWeightKeyframe(track, i - 1),
                                  interpolation, step_start, time, weight, duration))

\* The rest of the loop after weight i, r being the outcome of its
\* interpolate_keyframes.
MorphTweenedNext(track, weights, i, interpolation, step_start, time, weight, duration, r) ==
    IF r.result # "Ok" THEN Err(r.result, weights)
    ELSE MorphTweenedLoop(track, [weights EXCEPT ![i] = r.dest], i + 1,
                          interpolation, step_start, time, weight, duration)

\* <MorphWeightsKeyframes as Keyframes>::apply_tweened_keyframes
MorphApplyTweenedKeyframes(obj, track, interpolation, step_start, time, weight, duration) ==
    IF ~obj.morph THEN Err("ComponentNotPresent", obj)
    ELSE WeightsWritten(obj, MorphTweenedLoop(track, obj.weights, 1, interpolation,
                                              step_start, time, weight, duration))

\* ------------------------------------------------------- dispatch entries
\* The entry registered for f32 (FromType<f32>).  keyframes_ty is the runtime
\* type of the keyframe list, dest_kind names the value handed in as dest:
\* the object's property (an f32) or its MorphWeights.

\* ReflectAnimatable::from_type, interpolate_first_keyframe
ReflectInterpolateFirstKeyframe(obj, dest_kind, keyframes_ty, keyframes, weight) ==
    IF keyframes_ty # "Vec<f32>" THEN Err("MalformedKeyframes", obj)
    ELSE IF Len(keyframes) = 0 THEN Err("KeyframeNotPresent", obj)
    ELSE IF dest_kind # "property" THEN Err("PropertyNotPresent", obj)
    ELSE Ok([obj EXCEPT !.property = Interpolate("f32", obj.property, keyframes[1], weight)])

\* The destination downcast before the keyframe list.
ReflectInterpolateKeyframesDestFirst(obj, dest_kind, keyframes_ty, keyframes, interpolation, step_start, time, weight, duration) ==
    IF dest_kind # "property" THEN Err("PropertyNotPresent", obj)
    ELSE IF keyframes_ty # "Vec<f32>" THEN Err("MalformedKeyframes", obj)
    ELSE PropertyWritten(obj,
             InterpolateKeyframes("f32", obj.property, VecKeyframes(keyframes),
                                  interpolation, step_start, time, weight, duration))

\* ReflectAnimatable::from_type, interpolate_keyframes
ReflectInterpolateKeyframes(obj, dest_kind, keyframes_ty, keyframes, interpolation, step_start, time, weight, duration) ==
    IF keyframes_ty # "Vec<f32>" THEN Err("MalformedKeyframes", obj)
    ELSE IF dest_kind # "property" THEN Err("PropertyNotPresent", obj)
    ELSE PropertyWritten(obj,
             InterpolateKeyframes("f32", obj.property, VecKeyframes(keyframes),
                                  interpolation, step_start, time, weight, duration))

\* The loop of MORPH_WEIGHTS_REFLECT_ANIMATABLE.interpolate_first_keyframe:
\* keyframes[morph_target_index] panics past the end of the list.
RECURSIVE MorphReflectFirstLoop(_, _, _, _)
MorphReflectFirstLoop(keyframes, weights, i, weight) ==
    IF i > Len(weights) THEN Ok(weights)
    ELSE IF i > Len(keyframes) THEN Err("Panic", weights)
    ELSE MorphReflectFirstLoop(keyframes,
             [weights EXCEPT ![i] = Interpolate("f32", weights[i], keyframes[i], weight)],
             i + 1, weight)

\* MORPH_WEIGHTS_REFLECT_ANIMATABLE.interpolate_first_keyframe
MorphReflectInterpolateFirstKeyframe(obj, dest_kind, keyframes_ty, keyframes, weight) ==
    IF keyframes_ty # "Vec<f32>" THEN Err("MalformedKeyframes", obj)
    ELSE IF dest_kind # "weights" THEN Err("PropertyNotPresent", obj)
    ELSE WeightsWritten(obj, MorphReflectFirstLoop(keyframes, obj.weights, 1, weight))

\* The loop of MORPH_WEIGHTS_REFLECT_ANIMATABLE.interpolate_keyframes: the
\* stride is the number of weights of the destination.
RECURSIVE MorphReflectTweenedLoop(_, _, _, _, _, _, _, _, _)
RECURSIVE MorphReflectTweenedNext(_, _, _, _, _, _, _, _, _, _)
MorphReflectTweenedLoop(keyframes, weights, i, morph_target_count, interpolation, step_start, time, weight, duration) ==
    IF i > Len(weights) THEN Ok(weights)
    ELSE MorphReflectTweenedNext(keyframes, weights, i, morph_target_count, interpolation,
             step_start, time, weight, duration,
             InterpolateKeyframes("f32", weights[i],
                 MorphWeightsKeyframesList(keyframes, i - 1, morph_target_count),
                 interpolation, step_start, time, weight, duration))

\* The rest of the loop after weight i, r being the outcome of its
\* interpolate_keyframes.
MorphReflectTweenedNext(keyframes, weights, i, morph_target_count, interpolation, step_start, time, weight, duration, r) ==
    IF r.result # "Ok" THEN Err(r.result, weights)
    ELSE MorphReflectTweenedLoop(keyframes, [weights EXCEPT ![i] = r.dest], i + 1,
             morph_target_count, interpolation, step_start, time, weight, duration)

\* MORPH_WEIGHTS_REFLECT_ANIMATABLE.interpolate_keyframes
MorphReflectInterpolateKeyframes(obj, dest_kind, keyframes_ty, keyframes, interpolation, step_start, time, weight, duration) ==
    IF keyframes_ty # "Vec<f32>" THEN Err("MalformedKeyframes", obj)
    ELSE IF dest_kind # "weights" THEN Err("PropertyNotPresent", obj)
    ELSE WeightsWritten(obj, MorphReflectTweenedLoop(keyframes, obj.weights, 1,
             Len(obj.weights), interpolation, step_start, time, weight, duration))


\* ------------------------------------------------------------------- state
VARIABLES
    world,    \* the objects: world[o] is object o
    active,   \* the objects the driver applies tracks to
    calls,    \* the number of calls made so far
    last,     \* the last call: its arguments, the object before it, its result
    pure,     \* the last evaluation of interpolate or blend: arguments and value
    applied,  \* the property before the first application of a sequence, and
              \* the contributions [value, weight] of the successful ones
    frame     \* the objects when the frame started, and for each worker the
              \* calls it has made so far: [at, call], at being the place of
              \* the call among all the calls of the frame and call its
              \* arguments, the object before it and its result

vars == <<world, active, calls, last, pure, applied, frame>>

Objects == {1, 2}

\* Keyframe values: the first three are the keyframes 0, 10, 20.
KeyframeValue(i) == FromInt(IF i <= 3 THEN 10 * (i - 1) ELSE 3 * i)

\* The keyframe array of n values.
KeyframeArray(n) == [i \in 1..n |-> KeyframeValue(i)]

KeyframeArrays == {KeyframeArray(n) : n \in 0..MaxKeyframes}

MorphTracks ==
    {[morph_target_count |-> c, weights |-> w] : c \in 0..MaxTargets, w \in KeyframeArrays}

Interpolations == {"Step", "Linear", "CubicSpline"}

StepStarts == 0..MaxStep

WeightValues == {Zero, Half, One}

TimeValues == {Zero, Half, One}

\* duration is read by CubicSpline alone.
Durations(interpolation) ==
    IF interpolation = "CubicSpline" THEN {One, FromInt(3)} ELSE {One}

KeyframesTypes == {"Vec<f32>", "Vec<f64>"}

DestKinds == {"property", "weights"}

\* The weights a mesh of n morph targets starts with.
InitialWeights(n) == [i \in 1..n |-> FromInt(i)]

NoObject ==
    [component |-> FALSE, prop_some |-> FALSE, property |-> Zero,
     morph |-> FALSE, weights |-> <<>>]

InitialObjects ==
    {[component |-> c, prop_some |-> ps, property |-> p, morph |-> m, weights |-> w] :
        c \in BOOLEAN, ps \in BOOLEAN, p \in {Zero, FromInt(20)}, m \in BOOLEAN,
        w \in {InitialWeights(n) : n \in 0..MaxTargets}}

\* Objects as they can be: absent components hold nothing.
WellFormed(obj) ==
    /\ ~obj.component => (~obj.prop_some /\ obj.property = Zero)
    /\ ~obj.prop_some => obj.property = Zero
    /\ ~obj.morph => obj.weights = <<>>

NoCall ==
    [op |-> "none", obj |-> 0, keyframes |-> <<>>, morph_target_count |-> 0,
     interpolation |-> "Step", step_start |-> 0, time |-> Zero, weight |-> Zero,
     duration |-> One, keyframes_ty |-> "Vec<f32>", dest_kind |-> "property",
     prev |-> NoObject, result |-> "none", count |-> 0]

NoEval == [fn |-> "none", ty |-> "f32", a |-> Zero, b |-> Zero, t |-> Zero,
           d0 |-> Zero, d3 |-> Zero, duration |-> One, inputs |-> <<>>, out |-> Zero,
           list |-> VecKeyframes(<<>>), index |-> 0, found |-> None]

NothingApplied == [start |-> Zero, contributions |-> <<>>]

NoFrame == [start |-> [o \in Objects |-> NoObject], log |-> [o \in Objects |-> <<>>]]

Init ==
    /\ active = {1}
    /\ world \in [Objects -> {o \in InitialObjects : WellFormed(o)}]
    /\ world[2] = NoObject
    /\ calls = 0
    /\ last = NoCall
    /\ pure = NoEval
    /\ applied = NothingApplied
    /\ frame = NoFrame

\* A call on object o with outcome r, recorded in last.
Record(o, call, r) ==
    /\ world' = [world EXCEPT ![o] = r.dest]
    /\ calls' = calls + 1
    /\ last' = [call EXCEPT !.obj = o, !.prev = world[o], !.result = r.result]
    /\ UNCHANGED <<active, pure, applied, frame>>

\* A keyframe_count call with outcome r.
RecordCount(call, r) ==
    /\ calls' = calls + 1
    /\ last' = [call EXCEPT !.result = r.result, !.count = r.count]
    /\ UNCHANGED <<world, active, pure, applied, frame>>

\* The modes an array of keyframe values can have been authored for: a
\* CubicSpline track stores three values for each keyframe.
AuthoredModes(keyframes) ==
    IF Len(keyframes) % 3 = 0 THEN Interpolations ELSE {"Step", "Linear"}

\* keyframe_count of a property track authored for mode i; the mode belongs
\* to the clip and is not known to the track.
DoPropertyKeyframeCount ==
    /\ calls = 0
    /\ \E k \in KeyframeArrays :
        \E i \in AuthoredModes(k) :
            RecordCount([NoCall EXCEPT !.op = "PropertyKeyframeCount", !.keyframes = k,
                                       !.interpolation = i],
                        PropertyKeyframeCount(k))

DoPropertyApplySingleKeyframe ==
    /\ calls = 0
    /\ \E o \in active, k \in KeyframeArrays, w \in WeightValues :
        Record(o, [NoCall EXCEPT !.op = "PropertyApplySingleKeyframe",
                                 !.keyframes = k, !.weight = w],
               PropertyApplySingleKeyframe(world[o], k, w))

DoPropertyApplyTweenedKeyframes ==
    /\ calls = 0
    /\ \E o \in active, k \in KeyframeArrays, i \in Interpolations, s \in StepStarts,
       t \in TimeValues, w \in WeightValues :
        \E d \in Durations(i) :
            Record(o, [NoCall EXCEPT !.op = "PropertyApplyTweenedKeyframes",
                                     !.keyframes = k, !.interpolation = i, !.step_start = s,
                                     !.time = t, !.weight = w, !.duration = d],
                   PropertyApplyTweenedKeyframes(world[o], k, i, s, t, w, d))

DoMorphKeyframeCount ==
    /\ calls = 0
    /\ \E m \in MorphTracks :
        RecordCount([NoCall EXCEPT !.op = "MorphKeyframeCount", !.keyframes = m.weights,
                                   !.morph_target_count = m.morph_target_count],
                    MorphKeyframeCount(m))

DoMorphApplySingleKeyframe ==
    /\ calls = 0
    /\ \E o \in active, m \in MorphTracks, w \in WeightValues :
        Record(o, [NoCall EXCEPT !.op = "MorphApplySingleKeyframe", !.keyframes = m.weights,
                                 !.morph_target_count = m.morph_target_count, !.weight = w],
               MorphApplySingleKeyframe(world[o], m, w))

DoMorphApplyTweenedKeyframes ==
    /\ calls = 0
    /\ \E o \in active, m \in MorphTracks, i \in Interpolations, s \in StepStarts,
       t \in TimeValues, w \in WeightValues :
        \E d \in Durations(i) :
            Record(o, [NoCall EXCEPT !.op = "MorphApplyTweenedKeyframes",
                                     !.keyframes = m.weights,
                                     !.morph_target_count = m.morph_target_count,
                                     !.interpolation = i, !.step_start = s,
                                     !.time = t, !.weight = w, !.duration = d],
                   MorphApplyTweenedKeyframes(world[o], m, i, s, t, w, d))

\* The caller can hand in as dest only what the object has.
HasDest(obj, dest_kind) ==
    IF dest_kind = "property" THEN obj.component /\ obj.prop_some ELSE obj.morph

DoReflectInterpolateFirstKeyframe ==
    /\ calls = 0
    /\ \E o \in active, dk \in DestKinds, kt \in KeyframesTypes, k \in KeyframeArrays,
       w \in WeightValues :
        /\ HasDest(world[o], dk)
        /\ Record(o, [NoCall EXCEPT !.op = "ReflectInterpolateFirstKeyframe",
                                    !.dest_kind = dk, !.keyframes_ty = kt,
                                    !.keyframes = k, !.weight = w],
                  ReflectInterpolateFirstKeyframe(world[o], dk, kt, k, w))

DoReflectInterpolateKeyframes ==
    /\ calls = 0
    /\ \E o \in active, dk \in DestKinds, kt \in KeyframesTypes, k \in KeyframeArrays,
       i \in Interpolations, s \in StepStarts, t \in TimeValues, w \in WeightValues :
        \E d \in Durations(i) :
            /\ HasDest(world[o], dk)
            /\ Record(o, [NoCall EXCEPT !.op = "ReflectInterpolateKeyframes",
                                        !.dest_kind = dk, !.keyframes_ty = kt,
                                        !.keyframes = k, !.interpolation = i,
                                        !.step_start = s, !.time = t, !.weight = w,
                                        !.duration = d],
                      ReflectInterpolateKeyframes(world[o], dk, kt, k, i, s, t, w, d))

DoMorphReflectInterpolateFirstKeyframe ==
    /\ calls = 0
    /\ \E o \in active, dk \in DestKinds, kt \in KeyframesTypes, k \in KeyframeArrays,
       w \in WeightValues :
        /\ HasDest(world[o], dk)
        /\ Record(o, [NoCall EXCEPT !.op = "MorphReflectInterpolateFirstKeyframe",
                                    !.dest_kind = dk, !.keyframes_ty = kt,
                                    !.keyframes = k, !.weight = w],
                  MorphReflectInterpolateFirstKeyframe(world[o], dk, kt, k, w))

DoMorphReflectInterpolateKeyframes ==
    /\ calls = 0
    /\ \E o \in active, dk \in DestKinds, kt \in KeyframesTypes, k \in KeyframeArrays,
       i \in Interpolations, s \in StepStarts, t \in TimeValues, w \in WeightValues :
        \E d \in Durations(i) :
            /\ HasDest(world[o], dk)
            /\ Record(o, [NoCall EXCEPT !.op = "MorphReflectInterpolateKeyframes",
                                        !.dest_kind = dk, !.keyframes_ty = kt,
                                        !.keyframes = k, !.interpolation = i,
                                        !.step_start = s, !.time = t, !.weight = w,
                                        !.duration = d],
                      MorphReflectInterpolateKeyframes(world[o], dk, kt, k, i, s, t, w, d))

Next ==
    \/ DoPropertyKeyframeCount
    \/ DoPropertyApplySingleKeyframe
    \/ DoPropertyApplyTweenedKeyframes
    \/ DoMorphKeyframeCount
    \/ DoMorphApplySingleKeyframe
    \/ DoMorphApplyTweenedKeyframes
    \/ DoReflectInterpolateFirstKeyframe
    \/ DoReflectInterpolateKeyframes
    \/ DoMorphReflectInterpolateFirstKeyframe
    \/ DoMorphReflectInterpolateKeyframes

Spec == Init /\ [][Next]_vars

\* ------------------------------------------------------------------ claims
\* The object the last call was made on, as the call left it.
Target == world[last.obj]

\* The keyframe of 0-based index i of the last call's array.
Keyframe(i) == last.keyframes[i + 1]

InRange(i) == i < Len(last.keyframes)

PropertyReachable == last.prev.component /\ last.prev.prop_some

\* C1: a successful Linear apply_tweened_keyframes of a property track, with
\* keyframes step_start and step_start + 1 in range, leaves the property at
\* interpolate(previous property, interpolate(keyframe[step_start],
\* keyframe[step_start + 1], time), weight); keyframes [0, 10, 20] with
\* step_start 0, time 0.5 and weight 1 on a property of 0 give 5.
C1_LinearTween ==
    (/\ last.op = "PropertyApplyTweenedKeyframes"
     /\ last.interpolation = "Linear"
     /\ InRange(last.step_start + 1)
     /\ last.result = "Ok")
    => /\ Target.property =
            Interpolate("f32", last.prev.property,
                        Interpolate("f32", Keyframe(last.step_start),
                                    Keyframe(last.step_start + 1), last.time),
                        last.weight)
       /\ (/\ last.keyframes = <<Zero, FromInt(10), FromInt(20)>>
           /\ last.step_start = 0
           /\ last.time = Half
           /\ last.weight = One
           /\ last.prev.property = Zero)
          => Target.property = FromInt(5)

C1_Witness ==
    /\ last.op = "PropertyApplyTweenedKeyframes"
    /\ last.interpolation = "Linear"
    /\ last.keyframes = <<Zero, FromInt(10), FromInt(20)>>
    /\ last.step_start = 0
    /\ last.time = Half
    /\ last.weight = One
    /\ last.prev.property = Zero
    /\ last.result = "Ok"
    /\ Target.property = FromInt(5)

\* C2: after a successful apply_single_keyframe of a property track, and
\* after a successful interpolate_first_keyframe of a dispatch entry, the
\* property is interpolate(previous property, keyframe[0], weight).
C2_FirstKeyframeBlended ==
    (/\ last.op \in {"PropertyApplySingleKeyframe", "ReflectInterpolateFirstKeyframe"}
     /\ last.result = "Ok")
    => Target.property = Interpolate("f32", last.prev.property, Keyframe(0), last.weight)

\* C3: apply_single_keyframe of a track without keyframes, property track or
\* morph-weight track, on an object that has the targeted component and
\* property, returns KeyframeNotPresent.
C3_EmptyTrackReported ==
    (/\ last.keyframes = <<>>
     /\ \/ last.op = "PropertyApplySingleKeyframe" /\ PropertyReachable
        \/ last.op = "MorphApplySingleKeyframe" /\ last.prev.morph)
    => last.result = "KeyframeNotPresent"

\* C4: a successful Step apply_tweened_keyframes leaves the property at
\* interpolate(previous property, keyframe[step_start], weight), which is
\* keyframe[step_start] when weight is 1, and the same call with any other
\* time leaves the same result and the same object.
C4_StepIgnoresTime ==
    (/\ last.op = "PropertyApplyTweenedKeyframes"
     /\ last.interpolation = "Step"
     /\ last.result = "Ok")
    => /\ InRange(last.step_start)
       /\ Target.property =
            Interpolate("f32", last.prev.property, Keyframe(last.step_start), last.weight)
       /\ last.weight = One => Target.property = Keyframe(last.step_start)
       /\ \A t \in TimeValues :
            PropertyApplyTweenedKeyframes(last.prev, last.keyframes, "Step", last.step_start,
                                          t, last.weight, last.duration)
                = [result |-> "Ok", dest |-> Target]

C4_Witness ==
    /\ last.op = "PropertyApplyTweenedKeyframes"
    /\ last.interpolation = "Step"
    /\ last.result = "Ok"
    /\ last.time = Half
    /\ last.weight = One
    /\ last.step_start = 1
    /\ last.prev.property # Keyframe(1)
    /\ Target.property = Keyframe(1)

\* The largest 0-based index a mode reads for a step.
LastIndexRead(interpolation, step_start) ==
    CASE interpolation = "Step" -> step_start
      [] interpolation = "Linear" -> step_start + 1
      [] interpolation = "CubicSpline" -> step_start * 3 + 4

\* C5 as stated: apply_tweened_keyframes of a property track returns
\* KeyframeNotPresent whenever keyframe step_start + 1 (CubicSpline: an entry
\* of the quadruple step_start*3+1 .. step_start*3+4) is out of range, in
\* every mode.
C5_EndKeyframeRequired ==
    (/\ last.op = "PropertyApplyTweenedKeyframes"
     /\ PropertyReachable
     /\ IF last.interpolation = "CubicSpline"
        THEN ~InRange(last.step_start * 3 + 4)
        ELSE ~InRange(last.step_start + 1))
    => last.result = "KeyframeNotPresent"

\* C5 amended: apply_tweened_keyframes of a property track, on an object that
\* has the component and the property, returns KeyframeNotPresent exactly
\* when the last index the mode reads is out of range: step_start for Step,
\* step_start + 1 for Linear, step_start*3 + 4 for CubicSpline; otherwise Ok.
C5_KeyframeNotPresentExactly ==
    (/\ last.op = "PropertyApplyTweenedKeyframes"
     /\ PropertyReachable)
    => /\ last.result \in {"Ok", "KeyframeNotPresent"}
       /\ last.result = "KeyframeNotPresent"
            <=> ~InRange(LastIndexRead(last.interpolation, last.step_start))

C5_Witness ==
    /\ last.op = "PropertyApplyTweenedKeyframes"
    /\ PropertyReachable
    /\ last.interpolation = "Step"
    /\ InRange(last.step_start)
    /\ ~InRange(last.step_start + 1)
    /\ last.result = "Ok"

\* C6: apply_single_keyframe and apply_tweened_keyframes of every track
\* variant return ComponentNotPresent when the object lacks the track's
\* component, whatever the track holds and whatever step_start is.
C6_ComponentNotPresentFirst ==
    /\ (/\ last.op \in {"PropertyApplySingleKeyframe", "PropertyApplyTweenedKeyframes"}
        /\ ~last.prev.component)
       => last.result = "ComponentNotPresent"
    /\ (/\ last.op \in {"MorphApplySingleKeyframe", "MorphApplyTweenedKeyframes"}
        /\ ~last.prev.morph)
       => last.result = "ComponentNotPresent"

C6_Witness ==
    /\ last.op = "PropertyApplyTweenedKeyframes"
    /\ ~last.prev.component
    /\ last.keyframes = <<>>
    /\ last.step_start = MaxStep
    /\ last.result = "ComponentNotPresent"

\* C7: no track operation panics: keyframe_count, apply_single_keyframe and
\* apply_tweened_keyframes return a value or one of the four errors.
C7_NoPanic == last.result # "Panic"

\* ------------------------------------------- interpolate and blend, evaluated
\* The values each type is evaluated on.
Quarter == <<1, -2>>

ValuesOf(ty) ==
    CASE ty = "f32" -> {Zero, FromInt(10), FromInt(20)}
      [] ty = "Vec3" -> {<<Zero, Zero, Zero>>, <<FromInt(10), FromInt(20), Zero>>,
                         <<FromInt(20), Zero, FromInt(5)>>}
      [] ty = "Color" -> {<<Zero, Zero, Zero, Zero>>, <<One, Half, Zero, One>>,
                          <<Half, One, One, Half>>}
      [] ty = "bool" -> BOOLEAN
      [] ty = "Quat" -> {Zero, Quarter, Half, FNeg(Half), <<3, -2>>, One}

BlendInputs(ty) ==
    {[weight |-> w, value |-> v, additive |-> ad] :
        w \in WeightValues, v \in ValuesOf(ty), ad \in BOOLEAN}

RECURSIVE SeqsUpTo(_, _)
SeqsUpTo(S, n) ==
    IF n = 0 THEN {<<>>}
    ELSE LET shorter == SeqsUpTo(S, n - 1)
         IN  shorter \cup {Append(q, x) : q \in {r \in shorter : Len(r) = n - 1}, x \in S}

InitPure ==
    /\ active = {}
    /\ world = [o \in Objects |-> NoObject]
    /\ calls = 0
    /\ last = NoCall
    /\ pure = NoEval
    /\ applied = NothingApplied
    /\ frame = NoFrame

EvalInterpolate ==
    /\ pure.fn = "none"
    /\ \E ty \in Types :
        \E a \in ValuesOf(ty), b \in ValuesOf(ty), t \in TimeValues \cup {Quarter} :
            pure' = [NoEval EXCEPT !.fn = "interpolate", !.ty = ty, !.a = a, !.b = b,
                                   !.t = t, !.out = Interpolate(ty, a, b, t)]
    /\ UNCHANGED <<world, active, calls, last, applied, frame>>

EvalBlend ==
    /\ pure.fn = "none"
    /\ \E ty \in Types :
        \E inputs \in SeqsUpTo(BlendInputs(ty), MaxInputs) :
            pure' = [NoEval EXCEPT !.fn = "blend", !.ty = ty, !.inputs = inputs,
                                   !.out = Blend(ty, inputs)]
    /\ UNCHANGED <<world, active, calls, last, applied, frame>>

\* Values whose weighted sums need more bits than the mantissa holds.
AdditiveValuesOf(ty) ==
    CASE ty = "f32" -> {One, FromInt(10), FromInt(63)}
      [] ty = "Vec3" -> {<<One, FromInt(10), FromInt(63)>>, <<FromInt(63), One, FromInt(10)>>,
                         <<FromInt(10), FromInt(63), One>>}

AdditiveInputs(ty) ==
    {[weight |-> w, value |-> v, additive |-> TRUE] :
        w \in WeightValues, v \in AdditiveValuesOf(ty)}

\* blend of additive inputs alone, of a scalar and of a vector type.
EvalAdditiveBlend ==
    /\ pure.fn = "none"
    /\ \E ty \in {"f32", "Vec3"} :
        \E inputs \in SeqsUpTo(AdditiveInputs(ty), MaxAdditive) :
            pure' = [NoEval EXCEPT !.fn = "blend", !.ty = ty, !.inputs = inputs,
                                   !.out = Blend(ty, inputs)]
    /\ UNCHANGED <<world, active, calls, last, applied, frame>>

\* interpolate_with_cubic_bezier from a = p0 to b = p3, of every type.
EvalCubic ==
    /\ pure.fn = "none"
    /\ \E ty \in Types :
        \E p0 \in ValuesOf(ty), d0 \in ValuesOf(ty), d3 \in ValuesOf(ty), p3 \in ValuesOf(ty),
           t \in TimeValues \cup {Quarter}, duration \in Durations("CubicSpline") :
            pure' = [NoEval EXCEPT !.fn = "cubic", !.ty = ty, !.a = p0, !.d0 = d0, !.d3 = d3,
                                   !.b = p3, !.t = t, !.duration = duration,
                                   !.out = InterpolateWithCubicBezier(ty, p0, d0, d3, p3,
                                                                      t, duration)]
    /\ UNCHANGED <<world, active, calls, last, applied, frame>>

\* The two morph-weight lookups, of the track and of the dispatch entry.
MorphLookups ==
    {GetMorphWeightKeyframe([morph_target_count |-> c, weights |-> KeyframeArray(n)], i) :
        n \in 0..MaxFlatLen, c \in 0..MaxLookupTargets, i \in 0..MaxLookupTargets - 1}
    \cup
    {MorphWeightsKeyframesList(KeyframeArray(n), i, c) :
        n \in 0..MaxFlatLen, c \in 0..MaxLookupTargets, i \in 0..MaxLookupTargets - 1}

\* GetKeyframe::get_keyframe / KeyframeList::get of a morph-weight lookup.
EvalMorphLookup ==
    /\ pure.fn = "none"
    /\ \E list \in MorphLookups, keyframe_index \in 0..MaxLookupTargets :
        pure' = [NoEval EXCEPT !.fn = "lookup", !.list = list, !.index = keyframe_index,
                               !.found = KeyframeGet(list, keyframe_index)]
    /\ UNCHANGED <<world, active, calls, last, applied, frame>>

\* The transforms evaluated: the fields of each differ from one another and
\* from those of the others.
TransformValues ==
    {[translation |-> <<Zero, Zero, Zero>>, rotation |-> Zero,
      scale |-> <<One, One, One>>],
     [translation |-> <<FromInt(10), FromInt(20), Zero>>, rotation |-> Quarter,
      scale |-> <<FromInt(20), Zero, FromInt(5)>>],
     [translation |-> <<FromInt(20), Zero, FromInt(63)>>, rotation |-> <<3, -2>>,
      scale |-> <<Half, FromInt(10), One>>]}

TransformInputs ==
    {[weight |-> w, value |-> v, additive |-> ad] :
        w \in WeightValues, v \in TransformValues, ad \in BOOLEAN}

EvalTransformInterpolate ==
    /\ pure.fn = "none"
    /\ \E a \in TransformValues, b \in TransformValues, t \in TimeValues \cup {Quarter} :
        pure' = [NoEval EXCEPT !.fn = "transform_interpolate", !.ty = "Transform", !.a = a, !.b = b,
                               !.t = t, !.out = TransformInterpolate(a, b, t)]
    /\ UNCHANGED <<world, active, calls, last, applied, frame>>

EvalTransformBlend ==
    /\ pure.fn = "none"
    /\ \E inputs \in SeqsUpTo(TransformInputs, MaxInputs) :
        pure' = [NoEval EXCEPT !.fn = "transform_blend", !.ty = "Transform", !.inputs = inputs,
                               !.out = TransformBlend(inputs)]
    /\ UNCHANGED <<world, active, calls, last, applied, frame>>

NextPure ==
    \/ EvalInterpolate
    \/ EvalTransformInterpolate
    \/ EvalTransformBlend
    \/ EvalBlend
    \/ EvalAdditiveBlend
    \/ EvalCubic
    \/ EvalMorphLookup

SpecPure == InitPure /\ [][NextPure]_vars

\* --------------------------------------------------- claims on the functions
LaneTypes == {"f32", "Vec3", "Color"}

\* The zero of a scalar, vector or colour type.
ZeroOf(ty) ==
    CASE ty = "f32" -> Zero
      [] ty = "Vec3" -> <<Zero, Zero, Zero>>
      [] ty = "Color" -> <<Zero, Zero, Zero, Zero>>

\* acc + weight * value, on the type itself.
AddScaled(ty, acc, weight, value) ==
    IF ty = "f32" THEN FAdd(acc, FMul(weight, value))
    ELSE [i \in DOMAIN acc |-> FAdd(acc[i], FMul(weight, value[i]))]

\* The left-to-right fold the claim describes, the last input folded last.
RECURSIVE LeftFold(_, _)
LeftFold(ty, inputs) ==
    IF Len(inputs) = 0 THEN ZeroOf(ty)
    ELSE LET acc == LeftFold(ty, SubSeq(inputs, 1, Len(inputs) - 1))
             input == inputs[Len(inputs)]
         IN  IF input.additive
             THEN AddScaled(ty, acc, input.weight, input.value)
             ELSE Interpolate(ty, acc, input.value, input.weight)

Reversed(q) == [i \in 1..Len(q) |-> q[Len(q) + 1 - i]]

\* C8: for scalar, vector and colour types blend(inputs) is the left-to-right
\* fold from the type's zero, acc + weight * value for an additive input and
\* interpolate(acc, value, weight) for a non-additive one.
C8_BlendIsLeftFold ==
    (pure.fn = "blend" /\ pure.ty \in LaneTypes)
    => pure.out = LeftFold(pure.ty, pure.inputs)

\* A sequence of non-additive inputs whose reversal blends to another value:
\* the blend is no weighted average.
C8_Witness ==
    /\ pure.fn = "blend"
    /\ pure.ty \in LaneTypes
    /\ Len(pure.inputs) = 2
    /\ \A i \in 1..2 : ~pure.inputs[i].additive
    /\ pure.out = LeftFold(pure.ty, pure.inputs)
    /\ Blend(pure.ty, Reversed(pure.inputs)) # pure.out

\* C9: interpolate(a, b, 0) = a and interpolate(a, b, 1) = b, exactly for
\* scalar, vector, colour and bool values, as orientations for rotations.
C9_InterpolateEndpoints ==
    (pure.fn = "interpolate")
    => /\ (pure.t = Zero /\ pure.ty # "Quat") => pure.out = pure.a
       /\ (pure.t = One /\ pure.ty # "Quat") => pure.out = pure.b
       /\ (pure.t = Zero /\ pure.ty = "Quat") => SameOrientation(pure.out, pure.a)
       /\ (pure.t = One /\ pure.ty = "Quat") => SameOrientation(pure.out, pure.b)

C9_Witness ==
    /\ pure.fn = "interpolate"
    /\ pure.ty = "f32"
    /\ pure.t = One
    /\ pure.a = FromInt(10)
    /\ pure.b = FromInt(20)
    /\ pure.out = FromInt(20)

SingleNonAdditive ==
    /\ pure.fn = "blend"
    /\ Len(pure.inputs) = 1
    /\ ~pure.inputs[1].additive

\* C10 as stated: for every Animatable implementation, blend of a single
\* non-additive input (w, v) is interpolate(zero, v, w), zero being the blend
\* of no input.
C10_SingleInputIsInterpolate ==
    SingleNonAdditive
    => pure.out = Interpolate(pure.ty, Blend(pure.ty, <<>>), pure.inputs[1].value,
                              pure.inputs[1].weight)

\* C10 amended: that holds for every implementation but bool; bool's blend of
\* a single input (w, v) is v whatever w is.
C10_SingleInputExceptBool ==
    SingleNonAdditive
    => IF pure.ty = "bool"
       THEN pure.out = pure.inputs[1].value
       ELSE pure.out = Interpolate(pure.ty, Blend(pure.ty, <<>>), pure.inputs[1].value,
                                   pure.inputs[1].weight)

C10_Witness ==
    /\ SingleNonAdditive
    /\ pure.ty = "f32"
    /\ pure.inputs[1].weight = Half
    /\ pure.inputs[1].value = FromInt(20)
    /\ pure.out = FromInt(10)

\* The orders n inputs can be given in.
Orders(n) == {p \in [1..n -> 1..n] : \A i, j \in 1..n : p[i] = p[j] => i = j}

Permuted(q, p) == [i \in 1..Len(q) |-> q[p[i]]]

AllAdditive ==
    /\ pure.fn = "blend"
    /\ pure.ty \in {"f32", "Vec3"}
    /\ \A i \in 1..Len(pure.inputs) : pure.inputs[i].additive

\* C11 as stated: for scalar and vector types blend of additive inputs alone
\* is the weighted sum of the values and is the same for every order of the
\* inputs, of two inputs and of longer sequences.
C11_AdditiveOrderIndependent ==
    AllAdditive
    => /\ pure.out = LeftFold(pure.ty, pure.inputs)
       /\ \A p \in Orders(Len(pure.inputs)) :
            Blend(pure.ty, Permuted(pure.inputs, p)) = pure.out

\* C11 amended: blend of additive inputs alone is the sum of the products
\* weight * value taken from left to right, each product and each partial sum
\* rounded; it is the same for both orders of two inputs, while three inputs
\* and more can sum to different values in different orders.
C11_AdditiveSumLeftToRight ==
    AllAdditive
    => /\ pure.out = LeftFold(pure.ty, pure.inputs)
       /\ Len(pure.inputs) <= 2
          => \A p \in Orders(Len(pure.inputs)) :
                Blend(pure.ty, Permuted(pure.inputs, p)) = pure.out

C11_Witness ==
    /\ AllAdditive
    /\ pure.ty = "f32"
    /\ pure.inputs = << [weight |-> One, value |-> FromInt(63), additive |-> TRUE],
                        [weight |-> Half, value |-> FromInt(63), additive |-> TRUE],
                        [weight |-> Half, value |-> One, additive |-> TRUE] >>
    /\ pure.out = LeftFold("f32", pure.inputs)
    /\ Blend("f32", Permuted(pure.inputs, <<1, 3, 2>>)) # pure.out

\* The zero derivative of a type.
ZeroDerivative(ty) ==
    CASE ty \in LaneTypes -> ZeroOf(ty)
      [] ty = "bool" -> FALSE
      [] ty = "Quat" -> QuatIdentity

\* Equal values; for rotations, equal orientations.
SameValue(ty, x, y) == IF ty = "Quat" THEN SameOrientation(x, y) ELSE x = y

ZeroDerivatives ==
    /\ pure.fn = "cubic"
    /\ pure.d0 = ZeroDerivative(pure.ty)
    /\ pure.d3 = ZeroDerivative(pure.ty)

\* C12 as stated: with derivatives d0 = d3 = 0 interpolate_with_cubic_bezier
\* is interpolate(p0, p3, t) for every t in [0, 1] and every duration.
C12_ZeroDerivativesStraightLine ==
    ZeroDerivatives
    => SameValue(pure.ty, pure.out, Interpolate(pure.ty, pure.a, pure.b, pure.t))

\* C12 amended: with derivatives d0 = d3 = 0 interpolate_with_cubic_bezier is
\* p0 at t = 0 and p3 at t = 1 for every duration, and for bool it is
\* interpolate(p0, p3, t) for every t; between the endpoints the scalar,
\* vector and colour curve is the ease p0 + (p3 - p0) * (3t^2 - 2t^3).
C12_ZeroDerivativesEndpoints ==
    ZeroDerivatives
    => /\ pure.t = Zero => SameValue(pure.ty, pure.out, pure.a)
       /\ pure.t = One => SameValue(pure.ty, pure.out, pure.b)
       /\ pure.ty = "bool" => pure.out = Interpolate("bool", pure.a, pure.b, pure.t)

C12_Witness ==
    /\ ZeroDerivatives
    /\ pure.ty = "f32"
    /\ pure.a = Zero
    /\ pure.b = FromInt(20)
    /\ pure.t = Quarter
    /\ pure.duration = FromInt(3)
    /\ pure.out = <<25, -3>>
    /\ Interpolate("f32", pure.a, pure.b, pure.t) = FromInt(5)

\* The positions of the inputs no other input outweighs.
GreatestWeight(inputs) ==
    {i \in 1..Len(inputs) : \A j \in 1..Len(inputs) : ~FLess(inputs[i].weight, inputs[j].weight)}

\* C13: bool's blend returns the value of the input of greatest weight,
\* whatever the additive flags and wherever that input stands (the last of
\* them when several inputs share the greatest weight), and false when there
\* is no input.
C13_BoolBlendGreatestWeight ==
    (pure.fn = "blend" /\ pure.ty = "bool")
    => IF Len(pure.inputs) = 0 THEN pure.out = FALSE
       ELSE /\ \E i \in GreatestWeight(pure.inputs) :
                 /\ \A j \in GreatestWeight(pure.inputs) : j <= i
                 /\ pure.out = pure.inputs[i].value
            /\ \A v \in BOOLEAN :
                 (\A i \in GreatestWeight(pure.inputs) : pure.inputs[i].value = v)
                 => pure.out = v

\* The greatest weight stands first and is additive; the other is not.
C13_Witness ==
    /\ pure.fn = "blend"
    /\ pure.ty = "bool"
    /\ pure.inputs = << [weight |-> One, value |-> TRUE, additive |-> TRUE],
                        [weight |-> Half, value |-> FALSE, additive |-> FALSE] >>
    /\ pure.out = TRUE

\* ------------------------------------------------- claims on the track calls
SingleOps ==
    {"PropertyApplySingleKeyframe", "ReflectInterpolateFirstKeyframe",
     "MorphApplySingleKeyframe", "MorphReflectInterpolateFirstKeyframe"}

TweenedOps ==
    {"PropertyApplyTweenedKeyframes", "ReflectInterpolateKeyframes",
     "MorphApplyTweenedKeyframes", "MorphReflectInterpolateKeyframes"}

PropertyOps ==
    {"PropertyApplySingleKeyframe", "ReflectInterpolateFirstKeyframe",
     "PropertyApplyTweenedKeyframes", "ReflectInterpolateKeyframes"}

\* The keyframe list the last call reads for morph target i (1-based); for a
\* property it is the array itself.
LastList(i) ==
    CASE last.op \in PropertyOps -> VecKeyframes(last.keyframes)
      [] last.op \in {"MorphApplySingleKeyframe", "MorphApplyTweenedKeyframes"} ->
            MorphWeightsKeyframesList(last.keyframes, i - 1, last.morph_target_count)
      [] OTHER ->
            MorphWeightsKeyframesList(last.keyframes, i - 1, Len(last.prev.weights))

\* The keyframe value the last call computes for morph target i (for the
\* property when the call is on a property): the first keyframe, or the
\* value tweened between keyframes.
ComputedValue(i) ==
    IF last.op \in SingleOps
    THEN IF last.op \in PropertyOps THEN Keyframe(0) ELSE Keyframe(i - 1)
    ELSE TweenedValue("f32", LastList(i), last.interpolation, last.step_start,
                      last.time, last.duration).val

\* C14: a successful interpolate_first_keyframe, interpolate_keyframes,
\* apply_single_keyframe or apply_tweened_keyframes with weight 0 leaves the
\* destination as it was, and with weight 1 leaves it at the keyframe value
\* the call computes, whatever it was.
C14_WeightZeroAndOne ==
    (last.op \in SingleOps \cup TweenedOps /\ last.result = "Ok")
    => /\ last.weight = Zero => Target = last.prev
       /\ last.weight = One =>
            IF last.op \in PropertyOps
            THEN Target.property = ComputedValue(1)
            ELSE \A i \in 1..Len(Target.weights) : Target.weights[i] = ComputedValue(i)

\* The same of every call but apply_single_keyframe of a property track.
WeightZeroAndOneElsewhere ==
    last.op # "PropertyApplySingleKeyframe" => C14_WeightZeroAndOne

\* The keyframes of morph target i (1-based) of a flat array of n targets:
\* flat[k*n + i - 1] (0-based) for k = 0, 1, ... as far as the array reaches.
PerTargetList(flat, n, i) ==
    IF Len(flat) < i THEN <<>>
    ELSE [k \in 1..((Len(flat) - i) \div n + 1) |-> flat[(k - 1) * n + i]]

\* An object with a property of value v and no morph weights.
PropertyObject(v) ==
    [component |-> TRUE, prop_some |-> TRUE, property |-> v, morph |-> FALSE, weights |-> <<>>]

\* The property-track algorithm run for morph target i of the last call.
PerTargetRun(i) ==
    PropertyApplyTweenedKeyframes(PropertyObject(last.prev.weights[i]),
        PerTargetList(last.keyframes, last.morph_target_count, i),
        last.interpolation, last.step_start, last.time, last.weight, last.duration)

\* The targets whose run of the property-track algorithm fails.
FailingTargets == {i \in 1..Len(last.prev.weights) : PerTargetRun(i).result # "Ok"}

MorphTweenedOnAllTargets ==
    /\ last.op = "MorphApplyTweenedKeyframes"
    /\ last.prev.morph
    /\ Len(last.prev.weights) = last.morph_target_count

\* C15: apply_tweened_keyframes of a morph-weight track on a destination of
\* morph_target_count weights leaves every weight as the property-track
\* algorithm leaves it run on that target's own keyframe list, and returns Ok
\* when every such run does, the error of the first failing run otherwise.
C15_MorphTrackPerTarget ==
    MorphTweenedOnAllTargets
    => /\ \A i \in 1..Len(last.prev.weights) :
            Target.weights[i] = PerTargetRun(i).dest.property
       /\ FailingTargets = {} => last.result = "Ok"
       /\ \A i \in FailingTargets :
            (\A j \in FailingTargets : i <= j) => last.result = PerTargetRun(i).result

C15_Witness ==
    /\ MorphTweenedOnAllTargets
    /\ last.morph_target_count = 2
    /\ last.interpolation = "Linear"
    /\ last.step_start = 0
    /\ last.time = Half
    /\ last.weight = Half
    /\ last.result = "Ok"
    /\ Target.weights[1] # last.prev.weights[1]
    /\ Target.weights[2] # last.prev.weights[2]
    /\ Target.weights[1] # Target.weights[2]

\* C16: the morph-weight lookup of (keyframe_index, morph_target_index) reads
\* the flat index keyframe_index * target_count + morph_target_index and
\* finds nothing exactly when that index is at or past the length of the
\* array; target_count 3, keyframe_index 2 and target index 1 read index 7.
C16_MorphFlatIndex ==
    (pure.fn = "lookup")
    => /\ pure.found.some
            <=> pure.index * pure.list.morph_target_count + pure.list.morph_target_index
                    < Len(pure.list.items)
       /\ pure.found.some
            => pure.found.val =
                 pure.list.items[pure.index * pure.list.morph_target_count
                                 + pure.list.morph_target_index + 1]
       /\ (/\ pure.list.morph_target_count = 3
           /\ pure.index = 2
           /\ pure.list.morph_target_index = 1)
          => pure.found = IF Len(pure.list.items) >= 8 THEN Some(pure.list.items[8]) ELSE None

C16_Witness ==
    /\ pure.fn = "lookup"
    /\ pure.list.morph_target_count = 3
    /\ pure.index = 2
    /\ pure.list.morph_target_index = 1
    /\ Len(pure.list.items) = 8
    /\ pure.found = Some(KeyframeValue(8))

\* C17: keyframe_count returns the number of authored keyframes: n for a
\* property track that stores a CubicSpline track of n keyframes as 3n
\* values, the length of the array for the other modes, and
\* weights.len() / morph_target_count for a morph-weight track.
C17_KeyframeCountAuthored ==
    /\ (last.op = "PropertyKeyframeCount" /\ last.interpolation = "CubicSpline")
       => last.count * 3 = Len(last.keyframes)
    /\ (last.op = "PropertyKeyframeCount" /\ last.interpolation # "CubicSpline")
       => last.count = Len(last.keyframes)
    /\ (last.op = "MorphKeyframeCount" /\ last.morph_target_count > 0)
       => last.count = Len(last.keyframes) \div last.morph_target_count

\* What keyframe_count returns: the length of the array of a property track
\* whatever it was authored for.
KeyframeCountIsLength ==
    /\ last.op = "PropertyKeyframeCount" => last.count = Len(last.keyframes)
    /\ (last.op = "MorphKeyframeCount" /\ last.morph_target_count > 0)
       => last.count = Len(last.keyframes) \div last.morph_target_count

\* C18: interpolate_first_keyframe of a dispatch entry checks the keyframe
\* list's type (MalformedKeyframes), then the destination's type
\* (PropertyNotPresent), then that the list is not empty
\* (KeyframeNotPresent), and returns the error of the first check that fails.
C18_FirstKeyframeCheckOrder ==
    (last.op = "ReflectInterpolateFirstKeyframe")
    => last.result =
         IF last.keyframes_ty # "Vec<f32>" THEN "MalformedKeyframes"
         ELSE IF last.dest_kind # "property" THEN "PropertyNotPresent"
         ELSE IF Len(last.keyframes) = 0 THEN "KeyframeNotPresent"
         ELSE "Ok"

\* The order of the code: the empty list is reported before the destination.
FirstKeyframeCheckOrderOfCode ==
    (last.op = "ReflectInterpolateFirstKeyframe")
    => last.result =
         IF last.keyframes_ty # "Vec<f32>" THEN "MalformedKeyframes"
         ELSE IF Len(last.keyframes) = 0 THEN "KeyframeNotPresent"
         ELSE IF last.dest_kind # "property" THEN "PropertyNotPresent"
         ELSE "Ok"

\* C19: interpolate_keyframes of the dispatch entry registered for f32
\* returns MalformedKeyframes when the list is no list of f32, otherwise
\* PropertyNotPresent when the destination is no f32, both leaving the
\* destination alone, and otherwise returns what apply_tweened_keyframes of
\* the property track returns on the same arguments, with the same
\* destination value.
C19_DispatchDelegatesToTweening ==
    (last.op = "ReflectInterpolateKeyframes")
    => IF last.keyframes_ty # "Vec<f32>"
       THEN last.result = "MalformedKeyframes" /\ Target = last.prev
       ELSE IF last.dest_kind # "property"
       THEN last.result = "PropertyNotPresent" /\ Target = last.prev
       ELSE [result |-> last.result, dest |-> Target]
              = PropertyApplyTweenedKeyframes(last.prev, last.keyframes, last.interpolation,
                    last.step_start, last.time, last.weight, last.duration)

C19_Witness ==
    /\ last.op = "ReflectInterpolateKeyframes"
    /\ last.keyframes_ty = "Vec<f32>"
    /\ last.dest_kind = "property"
    /\ last.interpolation = "CubicSpline"
    /\ last.time = Half
    /\ last.weight = Half
    /\ last.result = "Ok"
    /\ Target.property # last.prev.property

\* ------------------------------------------- applications one after another
\* The tracks of several clips applied to one property of one object, one
\* call after the other, in the order the caller chooses.
SequenceKeyframes == KeyframeArray(MaxStep + 1)

InitSeq ==
    /\ active = {1}
    /\ \E v \in {Zero, FromInt(20)} :
        /\ world = [o \in Objects |-> IF o = 1 THEN PropertyObject(v) ELSE NoObject]
        /\ applied = [start |-> v, contributions |-> <<>>]
    /\ calls = 0
    /\ last = NoCall
    /\ pure = NoEval
    /\ frame = NoFrame

\* One more apply_tweened_keyframes on the object; a successful call adds its
\* contribution: the value it tweened and its weight.
DoApplyInSequence ==
    /\ calls < MaxApplications
    /\ \E o \in active, i \in {"Step", "Linear"}, s \in StepStarts, w \in WeightValues :
        /\ world' = [world EXCEPT ![o] =
                PropertyApplyTweenedKeyframes(world[o], SequenceKeyframes, i, s,
                                              Half, w, One).dest]
        /\ last' = [NoCall EXCEPT !.op = "PropertyApplyTweenedKeyframes", !.obj = o,
                        !.keyframes = SequenceKeyframes, !.interpolation = i,
                        !.step_start = s, !.time = Half, !.weight = w,
                        !.prev = world[o],
                        !.result = PropertyApplyTweenedKeyframes(world[o], SequenceKeyframes,
                                        i, s, Half, w, One).result]
        /\ applied' =
             IF PropertyApplyTweenedKeyframes(world[o], SequenceKeyframes, i, s,
                                              Half, w, One).result = "Ok"
             THEN [applied EXCEPT !.contributions =
                      Append(@, [value |-> TweenedValue("f32", VecKeyframes(SequenceKeyframes),
                                                        i, s, Half, One).val,
                                 weight |-> w])]
             ELSE applied
    /\ calls' = calls + 1
    /\ UNCHANGED <<active, pure, frame>>

NextSeq == DoApplyInSequence

SpecSeq == InitSeq /\ [][NextSeq]_vars

\* interpolate(...interpolate(interpolate(d, v1, w1), v2, w2)..., vn, wn)
RECURSIVE FoldContributions(_, _)
FoldContributions(d, contributions) ==
    IF Len(contributions) = 0 THEN d
    ELSE Interpolate("f32",
             FoldContributions(d, SubSeq(contributions, 1, Len(contributions) - 1)),
             contributions[Len(contributions)].value,
             contributions[Len(contributions)].weight)

Workers == Objects

\* apply_single_keyframe / apply_tweened_keyframes of a track, or an entry of
\* the dispatch table, called with the arguments of `call`.
ApplyCall(obj, call) ==
    CASE call.op = "PropertyApplySingleKeyframe" ->
            PropertyApplySingleKeyframe(obj, call.keyframes, call.weight)
      [] call.op = "PropertyApplyTweenedKeyframes" ->
            PropertyApplyTweenedKeyframes(obj, call.keyframes, call.interpolation,
                call.step_start, call.time, call.weight, call.duration)
      [] call.op = "MorphApplySingleKeyframe" ->
            MorphApplySingleKeyframe(obj,
                [morph_target_count |-> call.morph_target_count, weights |-> call.keyframes],
                call.weight)
      [] call.op = "MorphApplyTweenedKeyframes" ->
            MorphApplyTweenedKeyframes(obj,
                [morph_target_count |-> call.morph_target_count, weights |-> call.keyframes],
                call.interpolation, call.step_start, call.time, call.weight, call.duration)
      [] call.op = "ReflectInterpolateKeyframes" ->
            ReflectInterpolateKeyframes(obj, call.dest_kind, call.keyframes_ty,
                call.keyframes, call.interpolation, call.step_start, call.time,
                call.weight, call.duration)
      [] call.op = "MorphReflectInterpolateKeyframes" ->
            MorphReflectInterpolateKeyframes(obj, call.dest_kind, call.keyframes_ty,
                call.keyframes, call.interpolation, call.step_start, call.time,
                call.weight, call.duration)

\* The objects of a frame: one with the animated property and two morph
\* weights, one with a single morph weight and no animated component.
FrameObjects ==
    {[component |-> TRUE, prop_some |-> TRUE, property |-> FromInt(20),
      morph |-> TRUE, weights |-> InitialWeights(2)],
     [component |-> FALSE, prop_some |-> FALSE, property |-> Zero,
      morph |-> TRUE, weights |-> InitialWeights(1)]}

\* The tracks of a frame hold the keyframes 0 and 10.
FrameKeyframes == KeyframeArray(2)

FrameCall(op) ==
    [NoCall EXCEPT !.op = op, !.keyframes = FrameKeyframes, !.time = Half, !.weight = Half]

\* The calls of a frame.  With two keyframes a Linear call from keyframe 1
\* fails, and so does a Step call from keyframe 1 of a one-target morph track
\* on an object of two weights, at the second weight.
FrameCalls ==
    {[FrameCall("PropertyApplyTweenedKeyframes") EXCEPT
          !.interpolation = "Linear", !.step_start = s] : s \in 0..1}
    \cup {[FrameCall("PropertyApplySingleKeyframe") EXCEPT !.keyframes = <<>>]}
    \cup {[FrameCall("MorphApplyTweenedKeyframes") EXCEPT
               !.morph_target_count = 1, !.step_start = s] : s \in 0..1}
    \cup {[FrameCall("MorphApplySingleKeyframe") EXCEPT !.morph_target_count = 2]}
    \cup {[FrameCall("ReflectInterpolateKeyframes") EXCEPT !.interpolation = "Linear"]}
    \cup {[FrameCall("MorphReflectInterpolateKeyframes") EXCEPT !.dest_kind = "weights"]}

DispatchOps == {"ReflectInterpolateKeyframes", "MorphReflectInterpolateKeyframes"}

\* A dispatch entry is handed a value the object has; a worker whose call
\* panicked makes no further call.
CallAllowed(w, call) ==
    /\ call.op \in DispatchOps => HasDest(world[w], call.dest_kind)
    /\ \A k \in 1..Len(frame.log[w]) : frame.log[w][k].call.result # "Panic"

InitWorkers ==
    /\ active = Workers
    /\ world \in [Objects -> FrameObjects]
    /\ frame = [start |-> world, log |-> [w \in Workers |-> <<>>]]
    /\ calls = 0
    /\ last = NoCall
    /\ pure = NoEval
    /\ applied = NothingApplied

\* The outcome of a call written to every object of the frame.
WorkerWriteShared(w, r) == world' = [o \in Objects |-> r.dest]

\* The entity handed to a call is the worker's own: the outcome r of the call
\* is written to it alone.
WorkerWrite(w, r) == world' = [world EXCEPT ![w] = r.dest]

\* Worker w makes the call, with outcome r.
WorkerRecord(w, call, r) ==
    /\ WorkerWrite(w, r)
    /\ frame' = [frame EXCEPT !.log[w] =
                    Append(@, [at |-> calls + 1,
                               call |-> [call EXCEPT !.obj = w, !.prev = world[w],
                                                     !.result = r.result]])]
    /\ last' = [call EXCEPT !.obj = w, !.prev = world[w], !.result = r.result]
    /\ calls' = calls + 1
    /\ UNCHANGED <<active, pure, applied>>

WorkerApply ==
    /\ calls < MaxApplications
    /\ \E w \in Workers, call \in FrameCalls :
        /\ CallAllowed(w, call)
        /\ WorkerRecord(w, call, ApplyCall(world[w], call))

NextWorkers == WorkerApply

SpecWorkers == InitWorkers /\ [][NextWorkers]_vars

\* The object after the first k calls of a log, made one after another on obj
\* with no other call between them.
RECURSIVE Sequential(_, _, _)
Sequential(obj, log, k) ==
    IF k = 0 THEN obj
    ELSE ApplyCall(Sequential(obj, log, k - 1), log[k].call).dest

\* The object of worker w as its k-th call left it.
After(w, k) ==
    IF k < Len(frame.log[w]) THEN frame.log[w][k + 1].call.prev ELSE world[w]

\* A call that returned an error.
Failed(call) == call.result \notin {"Ok", "Panic"}

PropertyCalls ==
    {"PropertyApplySingleKeyframe", "PropertyApplyTweenedKeyframes",
     "ReflectInterpolateKeyframes"}

\* Two calls of one track: the same kind of track with the same keyframes.
SameTrack(c, d) ==
    /\ (c.op \in PropertyCalls) = (d.op \in PropertyCalls)
    /\ (c.op \in DispatchOps) = (d.op \in DispatchOps)
    /\ c.keyframes = d.keyframes
    /\ c.morph_target_count = d.morph_target_count

\* What a call writes: the property, or the morph weights.
Written(call, obj) == IF call.op \in PropertyCalls THEN obj.property ELSE obj.weights

\* The components of obj a call does not animate are those of before.
OtherComponentsKept(call, before, obj) ==
    IF call.op \in PropertyCalls
    THEN obj.morph = before.morph /\ obj.weights = before.weights
    ELSE /\ obj.component = before.component
         /\ obj.prop_some = before.prop_some
         /\ obj.property = before.property

\* The log without its k-th call.
Without(log, k) == SubSeq(log, 1, k - 1) \o SubSeq(log, k + 1, Len(log))

\* Between two calls of its worker, and before the first, no call of another
\* worker has touched an object.
OwnObjectUntouched ==
    \A w \in Workers : \A k \in 1..Len(frame.log[w]) :
        frame.log[w][k].call.prev = Sequential(frame.start[w], frame.log[w], k - 1)

\* The first half of C21: a call that returns an error changes no other
\* object and no other component of its own object.
FailureKeptToComponent ==
    /\ OwnObjectUntouched
    /\ \A w \in Workers : \A k \in 1..Len(frame.log[w]) :
        Failed(frame.log[w][k].call) =>
            OtherComponentsKept(frame.log[w][k].call, frame.log[w][k].call.prev, After(w, k))

\* C21: a track application that returns an error changes no other object and
\* no other component of its object, and every later application of another
\* track, or to another object, returns the result and writes the value it
\* would have if the failing call had never been made.
C21_FailureIsolated ==
    /\ FailureKeptToComponent
    /\ \A w \in Workers : \A k \in 1..Len(frame.log[w]) :
        (Failed(frame.log[w][k].call) /\ frame.log[w][k].call.op \notin DispatchOps) =>
            \A j \in (k + 1)..Len(frame.log[w]) :
                (/\ frame.log[w][j].call.op \notin DispatchOps
                 /\ ~SameTrack(frame.log[w][j].call, frame.log[w][k].call)) =>
                    /\ frame.log[w][j].call.result =
                         ApplyCall(Sequential(frame.start[w], Without(frame.log[w], k), j - 2),
                                   frame.log[w][j].call).result
                    /\ Written(frame.log[w][j].call, After(w, j)) =
                         Written(frame.log[w][j].call,
                                 Sequential(frame.start[w], Without(frame.log[w], k), j - 1))

\* C22: whatever the interleaving of the workers' calls, each object ends as
\* after its worker's calls made one after another from the start of the
\* frame, and each call returns the result it returns there.
C22_InterleavingAsSequential ==
    \A w \in Workers :
        /\ world[w] = Sequential(frame.start[w], frame.log[w], Len(frame.log[w]))
        /\ \A k \in 1..Len(frame.log[w]) :
            frame.log[w][k].call.result =
                ApplyCall(Sequential(frame.start[w], frame.log[w], k - 1),
                          frame.log[w][k].call).result

\* A failing call of worker 2 between two calls of worker 1, both of which
\* wrote the object of worker 1.
C22_Witness ==
    /\ Len(frame.log[1]) = 2
    /\ Len(frame.log[2]) = 1
    /\ frame.log[1][1].at = 1
    /\ frame.log[2][1].at = 2
    /\ frame.log[1][2].at = 3
    /\ Failed(frame.log[2][1].call)
    /\ frame.log[1][1].call.result = "Ok"
    /\ frame.log[1][2].call.result = "Ok"
    /\ frame.log[1][2].call.prev # frame.start[1]
    /\ world[1] # frame.log[1][2].call.prev

\* The inputs of a Transform blend with one field in place of the transform.
FieldInputs(inputs, field) ==
    [i \in 1..Len(inputs) |->
        [weight |-> inputs[i].weight, additive |-> inputs[i].additive,
         value |-> CASE field = "translation" -> inputs[i].value.translation
                     [] field = "rotation" -> inputs[i].value.rotation
                     [] field = "scale" -> inputs[i].value.scale]]

\* C23: Transform::blend is Vec3::blend on the translations and on the
\* scales and Quat::blend on the rotations, in the same order with the same
\* weights and flags, and Transform::interpolate is interpolate field by
\* field; blending the three lanes directly, with no fourth lane, gives the
\* same translation and scale.
C23_TransformFieldwise ==
    /\ (pure.fn = "transform_blend" /\ pure.ty = "Transform") =>
        /\ pure.out.translation = Blend("Vec3", FieldInputs(pure.inputs, "translation"))
        /\ pure.out.scale = Blend("Vec3", FieldInputs(pure.inputs, "scale"))
        /\ pure.out.rotation = Blend("Quat", FieldInputs(pure.inputs, "rotation"))
        /\ pure.out.translation = LeftFold("Vec3", FieldInputs(pure.inputs, "translation"))
        /\ pure.out.scale = LeftFold("Vec3", FieldInputs(pure.inputs, "scale"))
    /\ (pure.fn = "transform_interpolate" /\ pure.ty = "Transform") =>
        /\ pure.out.translation =
             Interpolate("Vec3", pure.a.translation, pure.b.translation, pure.t)
        /\ pure.out.scale = Interpolate("Vec3", pure.a.scale, pure.b.scale, pure.t)
        /\ pure.out.rotation = Interpolate("Quat", pure.a.rotation, pure.b.rotation, pure.t)

\* A blend of an additive and a non-additive transform that moves, turns and
\* scales.
C23_Witness ==
    /\ pure.fn = "transform_blend"
    /\ pure.ty = "Transform"
    /\ Len(pure.inputs) = 2
    /\ pure.inputs[1].additive
    /\ ~pure.inputs[2].additive
    /\ pure.inputs[1].value.rotation # pure.inputs[2].value.rotation
    /\ pure.out.rotation \notin {QuatIdentity, pure.inputs[1].value.rotation,
                                 pure.inputs[2].value.rotation}
    /\ pure.out.translation # <<Zero, Zero, Zero>>
    /\ pure.out.scale # pure.out.translation

\* The control point p0 + (duration / 3) * d0 (p3 - (duration / 3) * d3), in
\* float arithmetic.
ControlPointAfter(p0, d0, duration) == FAdd(p0, FMul(FDiv(duration, FromInt(3)), d0))

ControlPointBefore(p3, d3, duration) == FSub(p3, FMul(FDiv(duration, FromInt(3)), d3))

\* (1-t)^3*p0 + 3(1-t)^2*t*p1 + 3(1-t)*t^2*p2 + t^3*p3, term by term in float
\* arithmetic, u being 1 - t.
BezierTerms(p0, p1, p2, p3, t, u) ==
    FAdd(FAdd(FAdd(FMul(FMul(FMul(u, u), u), p0),
                   FMul(FMul(FMul(FromInt(3), FMul(u, u)), t), p1)),
              FMul(FMul(FMul(FromInt(3), u), FMul(t, t)), p2)),
         FMul(FMul(FMul(t, t), t), p3))

BezierPolynomial(p0, d0, d3, p3, t, duration) ==
    BezierTerms(p0, ControlPointAfter(p0, d0, duration),
                ControlPointBefore(p3, d3, duration), p3, t, FSub(One, t))

\* The subdivision on one lane, written out with a * (1 - t) + b * t: the
\* control points are (0 + w * d) + 1 * p, as blend accumulates them.
SubdivisionTop(a, b, c, t) ==
    F32Interpolate(F32Interpolate(a, b, t), F32Interpolate(b, c, t), t)

SubdivisionOf(p0, p1, p2, p3, t) ==
    SubdivisionTop(F32Interpolate(p0, p1, t), F32Interpolate(p1, p2, t),
                   F32Interpolate(p2, p3, t), t)

SubdivisionLane(p0, d0, d3, p3, t, duration) ==
    SubdivisionOf(p0,
        FAdd(FAdd(Zero, FMul(FDiv(duration, FromInt(3)), d0)), FMul(One, p0)),
        FAdd(FAdd(Zero, FMul(FDiv(duration, FromInt(-3)), d3)), FMul(One, p3)),
        p3, t)

\* The last evaluation seen lane by lane: a scalar has one lane.
LanesOf(ty, v) == IF ty = "f32" THEN <<v>> ELSE v

CubicOnLanes == pure.fn = "cubic" /\ pure.ty \in LaneTypes

\* C24 as stated: on scalar and vector values the reconstructed value is the
\* Bezier polynomial of p0, p1, p2, p3 at t, hence p0 at t = 0 and p3 at t = 1.
C24_CubicIsBezierPolynomial ==
    CubicOnLanes =>
        \A i \in DOMAIN LanesOf(pure.ty, pure.out) :
            LanesOf(pure.ty, pure.out)[i] =
                BezierPolynomial(LanesOf(pure.ty, pure.a)[i], LanesOf(pure.ty, pure.d0)[i],
                                 LanesOf(pure.ty, pure.d3)[i], LanesOf(pure.ty, pure.b)[i],
                                 pure.t, pure.duration)

\* C24 as the code has it: the value is the subdivision of p0, p1, p2, p3 by
\* six interpolates, each rounded, and it is p0 at t = 0 and p3 at t = 1 for
\* every d0, d3 and duration.
C24_CubicIsSubdivision ==
    CubicOnLanes =>
        /\ \A i \in DOMAIN LanesOf(pure.ty, pure.out) :
            LanesOf(pure.ty, pure.out)[i] =
                SubdivisionLane(LanesOf(pure.ty, pure.a)[i], LanesOf(pure.ty, pure.d0)[i],
                                LanesOf(pure.ty, pure.d3)[i], LanesOf(pure.ty, pure.b)[i],
                                pure.t, pure.duration)
        /\ pure.t = Zero => pure.out = pure.a
        /\ pure.t = One => pure.out = pure.b

\* A curve with both derivatives set, evaluated inside the step at a value
\* the polynomial evaluated term by term does not give.
C24_Witness ==
    /\ pure.fn = "cubic"
    /\ pure.ty = "f32"
    /\ pure.d0 # Zero
    /\ pure.d3 # Zero
    /\ pure.a # pure.b
    /\ pure.t = Quarter
    /\ pure.out = SubdivisionLane(pure.a, pure.d0, pure.d3, pure.b, pure.t, pure.duration)
    /\ pure.out # BezierPolynomial(pure.a, pure.d0, pure.d3, pure.b, pure.t, pure.duration)

\* ------------------------------------------------------ CubicSpline tracks
\* A property track authored for CubicSpline: n keyframes stored as n
\* triplets (in-tangent, value, out-tangent), 3n values in all.
TripletArrays == {KeyframeArray(3 * n) : n \in 0..MaxTriplets}

InitCubic ==
    /\ active = {1}
    /\ \E obj \in {NoObject, PropertyObject(Zero), PropertyObject(FromInt(20))} :
        world = [o \in Objects |-> IF o = 1 THEN obj ELSE NoObject]
    /\ calls = 0
    /\ last = NoCall
    /\ pure = NoEval
    /\ applied = NothingApplied
    /\ frame = NoFrame

\* apply_tweened_keyframes in CubicSpline mode on a track of triplets.
DoApplyCubicSpline ==
    /\ calls = 0
    /\ \E o \in active, k \in TripletArrays, s \in StepStarts, t \in TimeValues,
       w \in WeightValues, d \in Durations("CubicSpline") :
        Record(o, [NoCall EXCEPT !.op = "PropertyApplyTweenedKeyframes",
                                 !.keyframes = k, !.interpolation = "CubicSpline",
                                 !.step_start = s, !.time = t, !.weight = w, !.duration = d],
               PropertyApplyTweenedKeyframes(world[o], k, "CubicSpline", s, t, w, d))

NextCubic == DoApplyCubicSpline

SpecCubic == InitCubic /\ [][NextCubic]_vars

\* The number n of keyframes of the last call's track of triplets.
Triplets == Len(last.keyframes) \div 3

\* C25: a CubicSpline apply_tweened_keyframes on a track of n triplets that
\* reaches the property succeeds when step_start <= n - 2 and returns
\* KeyframeNotPresent when step_start >= n - 1; when it succeeds the value
\* blended into the property is the curve of (p0, d0, d3, p3) = the entries
\* 3s+1, 3s+2, 3s+3, 3s+4 of the array at t = time.
C25_CubicSplineIndices ==
    (last.op = "PropertyApplyTweenedKeyframes" /\ PropertyReachable) =>
        /\ last.step_start <= Triplets - 2 =>
            /\ last.result = "Ok"
            /\ Target.property =
                 Interpolate("f32", last.prev.property,
                     InterpolateWithCubicBezier("f32",
                         Keyframe(last.step_start * 3 + 1), Keyframe(last.step_start * 3 + 2),
                         Keyframe(last.step_start * 3 + 3), Keyframe(last.step_start * 3 + 4),
                         last.time, last.duration),
                     last.weight)
        /\ last.step_start >= Triplets - 1 =>
            /\ last.result = "KeyframeNotPresent"
            /\ Target = last.prev

\* The second step of a track of three keyframes, written over the property.
C25_Witness ==
    /\ last.op = "PropertyApplyTweenedKeyframes"
    /\ PropertyReachable
    /\ Triplets = 3
    /\ last.step_start = 1
    /\ last.time = Half
    /\ last.weight = One
    /\ last.result = "Ok"
    /\ Target.property # last.prev.property
    /\ Target.property =
         InterpolateWithCubicBezier("f32", Keyframe(4), Keyframe(5), Keyframe(6), Keyframe(7),
                                    Half, last.duration)

\* ------------------------------------------------- morph tracks, once more
MorphTrackOps == {"MorphKeyframeCount", "MorphApplySingleKeyframe", "MorphApplyTweenedKeyframes"}

\* C26: a morph-weight track that is applied (its call returns Ok) holds a
\* whole number of keyframes: weights.len() % morph_target_count = 0, and
\* keyframe_count() * morph_target_count = weights.len().
C26_MorphTrackWholeKeyframes ==
    (last.op \in MorphTrackOps /\ last.result = "Ok") =>
        /\ last.morph_target_count # 0
        /\ Len(last.keyframes) % last.morph_target_count = 0
        /\ last.op = "MorphKeyframeCount" =>
            last.count * last.morph_target_count = Len(last.keyframes)

\* What the code does keep: keyframe_count is the number of whole keyframes,
\* the quotient rounded down.
KeyframeCountRoundsDown ==
    (last.op = "MorphKeyframeCount" /\ last.result = "Ok") =>
        /\ last.count * last.morph_target_count <= Len(last.keyframes)
        /\ Len(last.keyframes) < (last.count + 1) * last.morph_target_count

\* The last call returned an error.
ReturnedError == last.result \notin {"none", "Ok", "Panic"}

ApplyOps ==
    {"PropertyApplySingleKeyframe", "PropertyApplyTweenedKeyframes",
     "MorphApplySingleKeyframe", "MorphApplyTweenedKeyframes",
     "ReflectInterpolateFirstKeyframe", "ReflectInterpolateKeyframes",
     "MorphReflectInterpolateFirstKeyframe", "MorphReflectInterpolateKeyframes"}

\* C27: when apply_single_keyframe, apply_tweened_keyframes,
\* interpolate_first_keyframe or interpolate_keyframes returns an error, the
\* destination is as it was before the call: a morph-weight application that
\* fails at some target has changed no weight.
C27_ErrorLeavesDestination ==
    (last.op \in ApplyOps /\ ReturnedError) => Target = last.prev

\* The same for every operation but the two tweened morph-weight loops.
ErrorLeavesDestinationElsewhere ==
    (/\ last.op \in ApplyOps
     /\ last.op \notin {"MorphApplyTweenedKeyframes", "MorphReflectInterpolateKeyframes"}
     /\ ReturnedError) => Target = last.prev

\* The weights (1-based) the last call modified.
ModifiedWeights ==
    {i \in 1..Len(Target.weights) : Target.weights[i] # last.prev.weights[i]}

MorphApplyOps == {"MorphApplySingleKeyframe", "MorphApplyTweenedKeyframes"}

\* C28: a morph-weight track applied to a destination whose number of
\* weights differs from its morph_target_count modifies only weights of
\* targets the track has, index < morph_target_count: no weight is driven by
\* the data of another target or of another keyframe.
C28_WeightsOfOwnTargets ==
    (/\ last.op \in MorphApplyOps
     /\ last.result # "Panic"
     /\ Len(last.prev.weights) # last.morph_target_count) =>
        \A i \in ModifiedWeights : i - 1 < last.morph_target_count

\* The same for a destination of fewer weights than the track has targets.
FewerWeightsOfOwnTargets ==
    (/\ last.op \in MorphApplyOps
     /\ last.result # "Panic"
     /\ Len(last.prev.weights) < last.morph_target_count) =>
        \A i \in ModifiedWeights : i - 1 < last.morph_target_count

\* The track of the last call.
LastTrack == [morph_target_count |-> last.morph_target_count, weights |-> last.keyframes]

\* The last call was made on morph weights as many as the track has targets,
\* with a Vec<f32> of keyframes where the entry is handed one.
StrideAgrees ==
    /\ last.prev.morph
    /\ Len(last.prev.weights) = last.morph_target_count

DispatchOnWeights ==
    /\ last.prev.morph
    /\ last.dest_kind = "weights"
    /\ last.keyframes_ty = "Vec<f32>"

\* The result and the object of the last call.
LastOutcome == [result |-> last.result, dest |-> Target]

\* C29: on the same flat array, with as many destination weights as the
\* track has targets, the track (stride morph_target_count) and the dispatch
\* entry (stride the number of destination weights) return the same result
\* and leave the same weights, for the first-keyframe and the tweened
\* operation in every mode.
C29_MorphEntryAsTrack ==
    /\ (last.op = "MorphApplyTweenedKeyframes" /\ StrideAgrees) =>
        LastOutcome = MorphReflectInterpolateKeyframes(last.prev, "weights", "Vec<f32>",
                          last.keyframes, last.interpolation, last.step_start, last.time,
                          last.weight, last.duration)
    /\ (last.op = "MorphApplySingleKeyframe" /\ StrideAgrees) =>
        LastOutcome = MorphReflectInterpolateFirstKeyframe(last.prev, "weights", "Vec<f32>",
                          last.keyframes, last.weight)
    /\ (last.op = "MorphReflectInterpolateKeyframes" /\ DispatchOnWeights) =>
        LastOutcome = MorphApplyTweenedKeyframes(last.prev,
                          [morph_target_count |-> Len(last.prev.weights),
                           weights |-> last.keyframes],
                          last.interpolation, last.step_start, last.time, last.weight,
                          last.duration)
    /\ (last.op = "MorphReflectInterpolateFirstKeyframe" /\ DispatchOnWeights) =>
        LastOutcome = MorphApplySingleKeyframe(last.prev,
                          [morph_target_count |-> Len(last.prev.weights),
                           weights |-> last.keyframes],
                          last.weight)

\* A Linear application of a two-target track that moved both weights of
\* the destination, to different values.
C29_Witness ==
    /\ last.op = "MorphApplyTweenedKeyframes"
    /\ StrideAgrees
    /\ last.morph_target_count = 2
    /\ last.interpolation = "Linear"
    /\ last.time = Half
    /\ last.weight = One
    /\ last.result = "Ok"
    /\ Target.weights[1] # last.prev.weights[1]
    /\ Target.weights[2] # last.prev.weights[2]
    /\ Target.weights[1] # Target.weights[2]

\* ---------------------------------------------------- rotations, once more
\* The inputs with every additive flag turned over.
FlagsFlipped(inputs) ==
    [i \in 1..Len(inputs) |-> [inputs[i] EXCEPT !.additive = ~inputs[i].additive]]

\* The control point interpolate_with_cubic_bezier builds from the endpoint p
\* and the derivative d weighted by w.
ControlPoint(ty, w, d, p) ==
    Blend(ty, << [weight |-> w, value |-> d, additive |-> TRUE],
                 [weight |-> One, value |-> p, additive |-> TRUE] >>)

RoundingSlack == <<1, 2 - MantissaBits>>

FAbs(x) == <<Abs(x[1]), x[2]>>

\* p and q are one orientation up to rounding: q - p, or q - p moved by whole
\* half turns, is smaller than the slack.
NearOrientation(p, q) ==
    \E d \in {FSub(q, p)} :
        \E k \in -2..2 : FLess(FAbs(FAdd(d, FromInt(k))), RoundingSlack)

\* The quaternions of p and q are orthogonal (the rotations are a half turn
\* apart): neither arc from one to the other is the shorter.
Orthogonal(p, q) == FAbs(Wrap(FSub(q, p))) = Half

====
